---------------------------- MODULE Spec2Model ----------------------------
(***************************************************************************)
(* A model of morty, a sanitizing web proxy (package main and package      *)
(* contenttype).                                                           *)
(*                                                                         *)
(* Strings.  A byte string is a sequence of model bytes.  A model byte is  *)
(* a TLA+ string that stands for one source byte or for a run of source    *)
(* bytes that the code treats alike ("http" for the four letters h,t,t,p). *)
(* Indexes into a byte string therefore count model bytes.                 *)
(***************************************************************************)
EXTENDS Integers, Sequences, FiniteSets, TLC


(***************************************************************************)
(* Byte-string helpers (package bytes / strings).                          *)
(***************************************************************************)
Take(s, n) == SubSeq(s, 1, n)

Drop(s, n) == SubSeq(s, n + 1, Len(s))

HasPrefix(s, p) == Len(s) >= Len(p) /\ Take(s, Len(p)) = p

HasSuffix(s, p) == Len(s) >= Len(p) /\ Drop(s, Len(s) - Len(p)) = p

\* strings.Index for a single byte: 1-based position of the first t, 0 if none
IndexOf(s, t) ==
    IF \E i \in 1..Len(s) : s[i] = t
    THEN CHOOSE i \in 1..Len(s) : s[i] = t /\ \A j \in 1..(i - 1) : s[j] # t
    ELSE 0

\* strings.LastIndex for a single byte: 1-based, 0 if none
LastIndexOf(s, t) ==
    IF \E i \in 1..Len(s) : s[i] = t
    THEN CHOOSE i \in 1..Len(s) : s[i] = t /\ \A j \in (i + 1)..Len(s) : s[j] # t
    ELSE 0

Contains(s, t) == \E i \in 1..Len(s) : s[i] = t

CountOf(s, t) == Cardinality({i \in 1..Len(s) : s[i] = t})

RECURSIVE Concat(_)
Concat(ss) == IF ss = <<>> THEN <<>> ELSE Head(ss) \o Concat(Tail(ss))

MapSeq(s, F(_)) == [i \in 1..Len(s) |-> F(s[i])]

(***************************************************************************)
(* Byte classes.                                                           *)
(***************************************************************************)
\* bytes <= 0x20 (the cutset of bytes.TrimRight and the test c > 32)
Ws == {"sp"}

UpperLetters == {"HTTP", "JAVA", "SCRIPT", "DATA", "TEXT"}

LowerLetters == {"http", "https", "ftp", "java", "script", "data", "mailto",
                 "h", "g", "x", "y", "u", "image"}

Letters == UpperLetters \cup LowerLetters

Digits == {"80"}

\* a byte sequence that is no valid percent-escape
BadEscape == "%zz"

\* c + 'a' - 'A' for 'A' <= c <= 'Z'
ToLowerByte(c) ==
    CASE c = "HTTP"   -> "http"
      [] c = "JAVA"   -> "java"
      [] c = "SCRIPT" -> "script"
      [] c = "DATA"   -> "data"
      [] c = "TEXT"   -> "text"
      [] c = "URL="   -> "url="
      [] c = "Refresh" -> "refresh"
      [] c = "Date"   -> "date"
      [] OTHER        -> c

\* the bytes that bytes.ToLower and strings.ToLower write for one byte: a
\* byte that is not valid UTF-8 ("xFF") is read as U+FFFD and written as its
\* three bytes
LowerBytes(c) ==
    IF c = "xFF" THEN <<"xEF", "xBF", "xBD">> ELSE <<ToLowerByte(c)>>

RECURSIVE ToLower(_)
ToLower(s) == IF s = <<>> THEN <<>> ELSE LowerBytes(Head(s)) \o ToLower(Tail(s))

\* how many bytes a model byte of a content attribute stands for
ByteLen(c) ==
    CASE c \in {"url=", "URL=", "http", "HTTP"} -> 4
      [] c = "%zz" -> 3
      [] c = "0;"  -> 2
      [] OTHER     -> 1

\* len(s) in bytes
RECURSIVE ByteSize(_)
ByteSize(s) == IF s = <<>> THEN 0 ELSE ByteLen(Head(s)) + ByteSize(Tail(s))

\* bytes.Index(s, t) for a model byte t: the offset in bytes, -1 if none
ByteIndex(s, t) ==
    IF IndexOf(s, t) = 0 THEN -1 ELSE ByteSize(Take(s, IndexOf(s, t) - 1))

\* how many model bytes of s make its first n bytes
PrefixLen(s, n) == CHOOSE k \in 0..Len(s) : ByteSize(Take(s, k)) = n

\* s[:n] and s[n:]
SliceTo(s, n) == Take(s, PrefixLen(s, n))

SliceFrom(s, n) == Drop(s, PrefixLen(s, n))

(***************************************************************************)
(* sanitizeURI                                                             *)
(***************************************************************************)
RECURSIVE TrimRightWs(_)
TrimRightWs(uri) ==
    IF uri # <<>> /\ uri[Len(uri)] \in Ws
    THEN TrimRightWs(Take(uri, Len(uri) - 1))
    ELSE uri

\* The byte loop of sanitizeURI from index i (0-based, as in the source).
\* st = [buffer, firstRuneIndex, firstRuneSeen, schemeLastIndex]
RECURSIVE ScanURI(_, _, _)
ScanURI(uri, i, st) ==
    IF i >= Len(uri) THEN st
    ELSE LET Seen(c, st1) ==
                 IF c = ":" THEN [st1 EXCEPT !.schemeLastIndex = i]
                 ELSE IF c \in {"/", "?", "\\", "#"} THEN st1
                 ELSE ScanURI(uri, i + 1, st1)
             Byte(c) ==
                 Seen(c, [st EXCEPT
                            !.buffer = Append(@, c),
                            !.firstRuneIndex = IF st.firstRuneSeen THEN @ ELSE i,
                            !.firstRuneSeen = TRUE])
         IN  IF uri[i + 1] \in Ws THEN ScanURI(uri, i + 1, st)
             ELSE Byte(ToLowerByte(uri[i + 1]))

\* copy(uri[schemeStartIndex:], buffer.Bytes())
CopyScheme(uri, buffer, schemeStartIndex) ==
    [k \in 1..Len(uri) |->
        IF k - 1 >= schemeStartIndex /\ k - 1 < schemeStartIndex + Len(buffer)
        THEN buffer[k - schemeStartIndex]
        ELSE uri[k]]

\* sanitizeURIResult that returns uri[firstRuneIndex:] when a scheme was found
sanitizeURIResultFirstRune(uri0, uri, st) ==
    IF st.schemeLastIndex # -1
    THEN [uri |-> Drop(CopyScheme(uri, st.buffer,
                                  st.schemeLastIndex - Len(st.buffer) + 1),
                       st.firstRuneIndex),
          scheme |-> st.buffer,
          mem |-> CopyScheme(uri, st.buffer, st.schemeLastIndex - Len(st.buffer) + 1)
                  \o Drop(uri0, Len(uri))]
    ELSE [uri |-> Drop(uri, st.firstRuneIndex), scheme |-> <<>>, mem |-> uri0]

\* lines 908-921 of sanitizeURI: uri0 is the argument, uri what TrimRight
\* left of it, st the state of the loop when it ended
sanitizeURIResult(uri0, uri, st) ==
    IF st.schemeLastIndex # -1
    THEN [uri |-> Drop(CopyScheme(uri, st.buffer,
                                  st.schemeLastIndex - Len(st.buffer) + 1),
                       st.schemeLastIndex - Len(st.buffer) + 1),
          scheme |-> st.buffer,
          mem |-> CopyScheme(uri, st.buffer, st.schemeLastIndex - Len(st.buffer) + 1)
                  \o Drop(uri0, Len(uri))]
    ELSE [uri |-> Drop(uri, st.firstRuneIndex), scheme |-> <<>>, mem |-> uri0]

\* lines 881-906 of sanitizeURI, uri being what TrimRight left
sanitizeTrimmed(uri0, uri) ==
    sanitizeURIResult(uri0, uri,
        ScanURI(uri, 0, [buffer |-> <<>>, firstRuneIndex |-> 0,
                         firstRuneSeen |-> FALSE, schemeLastIndex |-> -1]))

\* sanitizeURI without bytes.TrimRight
sanitizeURINoTrimRight(uri0) == sanitizeTrimmed(uri0, uri0)

\* returns [uri, scheme, mem]; mem is the caller's slice after the call, which
\* the in-place copy of the scheme has changed
sanitizeURI(uri0) == sanitizeTrimmed(uri0, TrimRightWs(uri0))

(***************************************************************************)
(* net/url as the program uses it: url.Parse, URL.String,                  *)
(* URL.ResolveReference and url.QueryEscape, on model byte strings.        *)
(* A URL value is a record; a nil *url.URL is a parse result with err.     *)
(***************************************************************************)
EmptyURL ==
    [Scheme |-> <<>>, Opaque |-> <<>>, HasUser |-> FALSE, User |-> <<>>,
     Host |-> <<>>, Path |-> <<>>, ForceQuery |-> FALSE, RawQuery |-> <<>>,
     Fragment |-> <<>>]

ParseError == [err |-> TRUE, url |-> EmptyURL]

ParseOk(u) == [err |-> FALSE, url |-> u]

\* unescape(s, mode) where every escape is valid: %20 is a space
UnescapeByte(c) == IF c = "%20" THEN "sp" ELSE c

Unescape(s) == MapSeq(s, UnescapeByte)

\* getScheme: (scheme, rest) or an error for a leading colon
RECURSIVE getScheme(_, _)
getScheme(s, i) ==
    IF i >= Len(s) THEN [err |-> FALSE, scheme |-> <<>>, rest |-> s]
    ELSE IF s[i + 1] \in Letters THEN getScheme(s, i + 1)
    ELSE IF s[i + 1] \in Digits \cup {"+", "-", "."}
         THEN IF i = 0 THEN [err |-> FALSE, scheme |-> <<>>, rest |-> s]
              ELSE getScheme(s, i + 1)
    ELSE IF s[i + 1] = ":"
         THEN IF i = 0 THEN [err |-> TRUE, scheme |-> <<>>, rest |-> s]
              ELSE [err |-> FALSE, scheme |-> Take(s, i), rest |-> Drop(s, i + 1)]
    ELSE [err |-> FALSE, scheme |-> <<>>, rest |-> s]

\* validOptionalPort and the host character check of parseHost
ValidHost(host) ==
    /\ ~Contains(host, BadEscape)
    /\ ~Contains(host, "%20")
    /\ ~Contains(host, "sp")
    /\ \A i \in 1..Len(host) :
          (host[i] = ":" /\ \A j \in (i + 1)..Len(host) : host[j] # ":")
          => \A k \in (i + 1)..Len(host) : host[k] \in Digits

\* parseAuthority, the authority cut at its last "@" (at = 0: no userinfo):
\* [err, HasUser, User, Host]
parseAuthorityAt(authority, at) ==
    [err |-> ~ValidHost(Drop(authority, at))
             \/ Contains(Take(authority, at), BadEscape),
     HasUser |-> at # 0,
     User |-> IF at = 0 THEN <<>> ELSE Take(authority, at - 1),
     Host |-> Drop(authority, at)]

parseAuthority(authority) == parseAuthorityAt(authority, LastIndexOf(authority, "@"))

\* parse(): the URL once the authority auth has been parsed; after is the
\* rest behind "//", aSl the index of its first "/" (0: none)
parseWithAuthority(url, after, aSl, auth) ==
    IF auth.err THEN ParseError
    ELSE IF aSl # 0 /\ Contains(Drop(after, aSl - 1), BadEscape) THEN ParseError
    ELSE ParseOk([url EXCEPT
                    !.HasUser = auth.HasUser, !.User = auth.User,
                    !.Host = auth.Host,
                    !.Path = IF aSl = 0 THEN <<>>
                             ELSE Unescape(Drop(after, aSl - 1))])

\* parse(): authority and path of a rest that starts with "//"
parseSlashSlash(url, after, aSl) ==
    parseWithAuthority(url, after, aSl,
        parseAuthority(IF aSl = 0 THEN after ELSE Take(after, aSl - 1)))

\* the first path segment of rest
FirstSegment(rest, slashI) == IF slashI = 0 THEN rest ELSE Take(rest, slashI - 1)

\* the end of parse(): authority and path of rest, which starts the hierarchy
parseHier(url, rest) ==
    IF ~HasPrefix(rest, <<"/">>) /\ url.Scheme # <<>>
    THEN ParseOk([url EXCEPT !.Opaque = rest])
    ELSE IF ~HasPrefix(rest, <<"/">>)
            /\ Contains(FirstSegment(rest, IndexOf(rest, "/")), ":")
    THEN ParseError
    ELSE IF (url.Scheme # <<>> \/ ~HasPrefix(rest, <<"/", "/", "/">>))
            /\ HasPrefix(rest, <<"/", "/">>)
    THEN parseSlashSlash(url, Drop(rest, 2), IndexOf(Drop(rest, 2), "/"))
    ELSE IF Contains(rest, BadEscape) THEN ParseError
    ELSE ParseOk([url EXCEPT !.Path = Unescape(rest)])

\* parse(): the query of rest, qI the index of its first "?" (0: none)
parseQuery(scheme, rest, force, qI, frag) ==
    parseHier([EmptyURL EXCEPT
                 !.Scheme = scheme, !.ForceQuery = force,
                 !.RawQuery = IF force \/ qI = 0 THEN <<>> ELSE Drop(rest, qI),
                 !.Fragment = Unescape(frag)],
              IF force THEN Take(rest, Len(rest) - 1)
              ELSE IF qI = 0 THEN rest ELSE Take(rest, qI - 1))

\* parse() after getScheme returned gs
parseScheme(gs, frag) ==
    IF gs.err THEN ParseError
    ELSE parseQuery(ToLower(gs.scheme), gs.rest,
                    gs.rest # <<>> /\ gs.rest[Len(gs.rest)] = "?"
                       /\ CountOf(gs.rest, "?") = 1,
                    IndexOf(gs.rest, "?"), frag)

\* parse(): u is the URL without its fragment
parseNoFragment(u, frag) ==
    IF Contains(frag, BadEscape) THEN ParseError ELSE parseScheme(getScheme(u, 0), frag)

\* url.Parse(rawURL) with the first "#" at hashI (0: none)
ParseAt(rawURL, hashI) ==
    parseNoFragment(IF hashI = 0 THEN rawURL ELSE Take(rawURL, hashI - 1),
                    IF hashI = 0 THEN <<>> ELSE Drop(rawURL, hashI))

\* url.Parse(rawURL): [err, url]
Parse(rawURL) == ParseAt(rawURL, IndexOf(rawURL, "#"))

\* URL.EscapedPath / EscapedFragment: a space is written %20
EscapeByte(c) == IF c = "sp" THEN "%20" ELSE c

\* URL.String()
String(u) ==
    (IF u.Scheme # <<>> THEN u.Scheme \o <<":">> ELSE <<>>)
    \o (IF u.Opaque # <<>> THEN u.Opaque
        ELSE (IF u.Scheme # <<>> \/ u.Host # <<>> \/ u.HasUser
              THEN (IF u.Host # <<>> \/ u.Path # <<>> \/ u.HasUser
                    THEN <<"/", "/">> ELSE <<>>)
                   \o (IF u.HasUser THEN u.User \o <<"@">> ELSE <<>>)
                   \o u.Host
              ELSE <<>>)
             \o (IF u.Path # <<>> /\ u.Path[1] # "/" /\ u.Host # <<>>
                 THEN <<"/">> ELSE <<>>)
             \o MapSeq(u.Path, EscapeByte))
    \o (IF u.ForceQuery \/ u.RawQuery # <<>> THEN <<"?">> \o u.RawQuery ELSE <<>>)
    \o (IF u.Fragment # <<>> THEN <<"#">> \o MapSeq(u.Fragment, EscapeByte) ELSE <<>>)

\* strings.Split(s, "/"): the sequence of segments
RECURSIVE SplitSlash(_)
SplitSlash(s) ==
    IF IndexOf(s, "/") = 0 THEN <<s>>
    ELSE <<Take(s, IndexOf(s, "/") - 1)>> \o SplitSlash(Drop(s, IndexOf(s, "/")))

\* resolvePath: dst after ".." has removed its last segment
DotDot(dst) ==
    IF LastIndexOf(Drop(dst, 1), "/") = 0 THEN [dst |-> <<"/">>, first |-> TRUE]
    ELSE [dst |-> <<"/">> \o Take(Drop(dst, 1), LastIndexOf(Drop(dst, 1), "/") - 1),
          first |-> FALSE]

\* the segment loop of resolvePath; st = [dst, first]
RECURSIVE ResolveSegments(_, _)
ResolveSegments(segs, st) ==
    IF segs = <<>> THEN st
    ELSE IF Head(segs) = <<".">>
    THEN ResolveSegments(Tail(segs), [st EXCEPT !.first = FALSE])
    ELSE IF Head(segs) = <<"..">>
    THEN ResolveSegments(Tail(segs),
                         [DotDot(st.dst) EXCEPT
                            !.first = IF @ THEN TRUE ELSE st.first])
    ELSE ResolveSegments(Tail(segs),
            [dst |-> st.dst \o (IF st.first THEN <<>> ELSE <<"/">>) \o Head(segs),
             first |-> FALSE])

\* resolvePath: "We wrote an initial '/', but we don't want two."
Unslash(r) == IF Len(r) > 1 /\ r[2] = "/" THEN Drop(r, 1) ELSE r

\* resolvePath: the end, after the loop over the segments segs left dst
resolvePathEnd(segs, dst) ==
    Unslash(IF segs[Len(segs)] = <<".">> \/ segs[Len(segs)] = <<"..">>
            THEN dst \o <<"/">> ELSE dst)

\* resolvePath: the loop and the end for the segments of full
resolveSegs(segs) ==
    resolvePathEnd(segs, ResolveSegments(segs, [dst |-> <<"/">>, first |-> TRUE]).dst)

\* resolvePath: full is the path to clean
resolveFull(full) == IF full = <<>> THEN <<>> ELSE resolveSegs(SplitSlash(full))

\* resolvePath(base, ref)
resolvePath(base, ref) ==
    resolveFull(IF ref = <<>> THEN base
                ELSE IF ref[1] # "/" THEN Take(base, LastIndexOf(base, "/")) \o ref
                ELSE ref)

\* u.ResolveReference(ref)
ResolveReference(u, ref) ==
    IF ref.Scheme # <<>> \/ ref.Host # <<>> \/ ref.HasUser
    THEN [ref EXCEPT !.Scheme = IF ref.Scheme = <<>> THEN u.Scheme ELSE @,
                     !.Path = resolvePath(ref.Path, <<>>)]
    ELSE IF ref.Opaque # <<>>
    THEN [ref EXCEPT !.Scheme = u.Scheme,
                     !.HasUser = FALSE, !.User = <<>>, !.Host = <<>>, !.Path = <<>>]
    ELSE IF ref.Path = <<>> /\ u.Opaque # <<>>
    THEN [ref EXCEPT
            !.Scheme = u.Scheme,
            !.RawQuery = IF ~ref.ForceQuery /\ ref.RawQuery = <<>> THEN u.RawQuery ELSE @,
            !.Fragment = IF ~ref.ForceQuery /\ ref.RawQuery = <<>> /\ ref.Fragment = <<>>
                         THEN u.Fragment ELSE @,
            !.Opaque = u.Opaque,
            !.HasUser = FALSE, !.User = <<>>, !.Host = <<>>, !.Path = <<>>]
    ELSE [ref EXCEPT
            !.Scheme = u.Scheme,
            !.RawQuery = IF ref.Path = <<>> /\ ~ref.ForceQuery /\ ref.RawQuery = <<>>
                         THEN u.RawQuery ELSE @,
            !.Fragment = IF ref.Path = <<>> /\ ~ref.ForceQuery /\ ref.RawQuery = <<>>
                            /\ ref.Fragment = <<>>
                         THEN u.Fragment ELSE @,
            !.Host = u.Host,
            !.HasUser = u.HasUser,
            !.User = u.User,
            !.Path = resolvePath(u.Path, ref.Path)]

\* url.QueryEscape, byte by byte
QueryEscapeByte(c) ==
    CASE c = ":"   -> "%3A"
      [] c = "/"   -> "%2F"
      [] c = "?"   -> "%3F"
      [] c = "#"   -> "%23"
      [] c = "@"   -> "%40"
      [] c = "\\"  -> "%5C"
      [] c = "sp"  -> "+"
      [] c = "%20" -> "%2520"
      [] c = "%zz" -> "%25zz"
      [] c = "image" -> "image"
      [] OTHER     -> c

QueryEscape(s) == MapSeq(s, QueryEscapeByte)

(***************************************************************************)
(* crypto/hmac, crypto/sha256 and encoding/hex.  The MAC is a small        *)
(* stand-in for HMAC-SHA256: DigestLen bytes computed from the key and     *)
(* every byte of the message with its position.  Hex is real hex.          *)
(***************************************************************************)
NoKey == "nil"

Keys == {"k1", "k2"}

DigestLen == 2

Alphabet ==
    <<"sp", "HTTP", "JAVA", "SCRIPT", "DATA", "http", "https", "ftp", "java",
      "script", "data", "mailto", "h", "g", "x", "y", "u", "image", "80",
      ":", "/", "?", "#", "@", "\\", ".", "..", ".onion", "%zz", "%20",
      "png", "svg", "q", "f", "&", "=">>

ByteCode(c) == IndexOf(Alphabet, c)

KeyCode(key) == IF key = "k1" THEN 1 ELSE IF key = "k2" THEN 2 ELSE 0

RECURSIVE WeightedSum(_, _, _)
WeightedSum(msg, j, i) ==
    IF j > Len(msg) THEN 0
    ELSE (j + i) * ByteCode(msg[j]) + WeightedSum(msg, j + 1, i)

\* mac.Write(msg); mac.Sum(nil)
MacSum(msg, key) ==
    [i \in 1..DigestLen |->
        (31 * KeyCode(key) + 17 * i + WeightedSum(msg, 1, i)) % 256]

HexLower == <<"0", "1", "2", "3", "4", "5", "6", "7", "8", "9",
              "a", "b", "c", "d", "e", "f">>

HexUpper == <<"0", "1", "2", "3", "4", "5", "6", "7", "8", "9",
              "A", "B", "C", "D", "E", "F">>

\* hex.EncodeToString
HexEncode(bytes) ==
    [k \in 1..(2 * Len(bytes)) |->
        LET b == bytes[(k + 1) \div 2] IN
        IF k % 2 = 1 THEN HexLower[(b \div 16) + 1] ELSE HexLower[(b % 16) + 1]]

\* value of one hex digit, -1 when it is none
HexVal(c) ==
    IF IndexOf(HexLower, c) # 0 THEN IndexOf(HexLower, c) - 1
    ELSE IF IndexOf(HexUpper, c) # 0 THEN IndexOf(HexUpper, c) - 1
    ELSE -1

\* hex.Decode into a buffer of hex.DecodedLen(len(src)) bytes: [err, bytes]
HexDecode(src) ==
    IF Len(src) % 2 = 1 \/ \E k \in 1..Len(src) : HexVal(src[k]) = -1
    THEN [err |-> TRUE, bytes |-> <<>>]
    ELSE [err |-> FALSE,
          bytes |-> [k \in 1..(Len(src) \div 2) |->
                       16 * HexVal(src[2 * k - 1]) + HexVal(src[2 * k])]]

hash(msg, key) == HexEncode(MacSum(msg, key))

\* verifyRequestURI comparing only as many bytes as hashMsg holds
verifyRequestURIPrefix(uri, hashMsg, key) ==
    LET h == HexDecode(hashMsg) IN
    IF h.err THEN FALSE
    ELSE Len(h.bytes) <= DigestLen /\ h.bytes = Take(MacSum(uri, key), Len(h.bytes))

\* hashMsg is <<>> when the parameter is missing (a nil slice)
verifyRequestURI(uri, hashMsg, key) ==
    LET h == HexDecode(hashMsg) IN
    IF h.err THEN FALSE ELSE h.bytes = MacSum(uri, key)

(***************************************************************************)
(* RequestConfig.ProxifyURI                                                *)
(***************************************************************************)
inArray(b, a) == \E i \in 1..Len(a) : a[i] = b

mergeURIs(u1, u2) == IF u2.err THEN u1 ELSE ResolveReference(u1, u2.url)

DataImagePrefixes ==
    {<<"data", ":", "image", "/", "png">>,
     <<"data", ":", "image", "/", "jpeg">>,
     <<"data", ":", "image", "/", "pjpeg">>,
     <<"data", ":", "image", "/", "gif">>,
     <<"data", ":", "image", "/", "webp">>}

\* IsSelfLink without the comparison of the query
IsSelfLinkAnyQuery(u, base) ==
    /\ u.Scheme = base.Scheme
    /\ (~base.HasUser \/ (u.HasUser /\ u.User = base.User))
    /\ u.Host = base.Host
    /\ u.Path = base.Path

\* the comparison of lines 968-972
IsSelfLink(u, base) ==
    /\ u.Scheme = base.Scheme
    /\ (~base.HasUser \/ (u.HasUser /\ u.User = base.User))
    /\ u.Host = base.Host
    /\ u.Path = base.Path
    /\ u.RawQuery = base.RawQuery

\* the URL that goes into mortyurl: the reference without its fragment,
\* merged with the document URL (lines 961-964)
MortyURL(rc, parsed) ==
    mergeURIs(rc.BaseURL, ParseOk([parsed EXCEPT !.Fragment = <<>>]))

\* ProxifyFull with the hash taken over the escaped mortyUri
ProxifyFullHashEscaped(rc, mortyUri, fragment) ==
    IF rc.Key = NoKey
    THEN [err |-> FALSE,
          uri |-> <<"./?mortyurl=">> \o QueryEscape(mortyUri) \o fragment]
    ELSE [err |-> FALSE,
          uri |-> <<"./?mortyhash=">> \o hash(QueryEscape(mortyUri), rc.Key)
                  \o <<"&mortyurl=">> \o QueryEscape(mortyUri) \o fragment]

\* lines 977-983: the proxified form of mortyUri
ProxifyFull(rc, mortyUri, fragment) ==
    IF rc.Key = NoKey
    THEN [err |-> FALSE,
          uri |-> <<"./?mortyurl=">> \o QueryEscape(mortyUri) \o fragment]
    ELSE [err |-> FALSE,
          uri |-> <<"./?mortyhash=">> \o hash(mortyUri, rc.Key)
                  \o <<"&mortyurl=">> \o QueryEscape(mortyUri) \o fragment]

\* lines 966-983: u is the URI merged with the document URI
ProxifyMerged(rc, u, fragment) ==
    IF IsSelfLink(u, rc.BaseURL) THEN [err |-> FALSE, uri |-> fragment]
    ELSE ProxifyFull(rc, String(u), fragment)

\* lines 950-983: p is what url.Parse returned
ProxifyParsed(rc, p) ==
    IF p.err THEN [err |-> TRUE, uri |-> <<>>]
    ELSE ProxifyMerged(rc, MortyURL(rc, p.url),
                       IF Len(p.url.Fragment) > 0
                       THEN <<"#">> \o p.url.Fragment ELSE <<>>)

\* ProxifySanitized without the test of the data: prefixes
ProxifySanitizedAnyData(rc, su) ==
    IF su.scheme = <<"java", "script", ":">> THEN [err |-> FALSE, uri |-> <<>>]
    ELSE IF su.scheme = <<"data", ":">> THEN [err |-> FALSE, uri |-> su.uri]
    ELSE ProxifyParsed(rc, Parse(su.uri))

\* lines 928-983: su is what sanitizeURI returned
ProxifySanitized(rc, su) ==
    IF su.scheme = <<"java", "script", ":">> THEN [err |-> FALSE, uri |-> <<>>]
    ELSE IF su.scheme = <<"data", ":">>
         THEN IF \E pre \in DataImagePrefixes : HasPrefix(su.uri, pre)
              THEN [err |-> FALSE, uri |-> su.uri]
              ELSE [err |-> FALSE, uri |-> <<>>]
    ELSE ProxifyParsed(rc, Parse(su.uri))

\* rc.ProxifyURI(uri): [err, uri]
ProxifyURI(rc, uri0) == ProxifySanitized(rc, sanitizeURI(uri0))

(***************************************************************************)
(* The tables of package main.                                             *)
(***************************************************************************)
StateDefault == 0

StateInStyle == 1

StateInNoscript == 2

MaxRedirectCount == 5

UnsafeElements == <<"applet", "canvas", "embed", "iframe", "math", "script", "svg">>

SafeAttributes ==
    <<"abbr", "accesskey", "align", "alt", "as", "autocomplete", "charset",
      "checked", "class", "content", "contenteditable", "contextmenu", "dir",
      "for", "height", "hidden", "hreflang", "id", "lang", "media", "method",
      "name", "nowrap", "placeholder", "property", "rel", "spellcheck",
      "tabindex", "target", "title", "translate", "type", "value", "width">>

LinkRelSafeValues ==
    << <<"alternate">>, <<"archives">>, <<"author">>, <<"copyright">>,
       <<"first">>, <<"help">>, <<"icon">>, <<"index">>, <<"last">>,
       <<"license">>, <<"manifest">>, <<"next">>, <<"prev">>, <<"publisher">>,
       <<"search">>, <<"shortcut icon">>, <<"stylesheet">>, <<"up">> >>

LinkHttpEquivSafeValues ==
    << <<"date">>, <<"last-modified">>, <<"refresh">>, <<"content-language">> >>

(***************************************************************************)
(* Output.  What a sanitizer writes is a sequence of chunks, one per write *)
(* call.  kind says which write it is, tag is the tag name of the token    *)
(* being processed, name an attribute or template name, val the bytes that *)
(* vary, css the items of a rewritten style sheet, depth the length of the *)
(* unsafe-element stack when the write happened.                           *)
(***************************************************************************)
Chunk(kind, tag, name, val) ==
    [kind |-> kind, tag |-> tag, name |-> name, val |-> val, css |-> <<>>,
     depth |-> 0]

CssChunk(kind, tag, name, items) ==
    [kind |-> kind, tag |-> tag, name |-> name, val |-> <<>>, css |-> items,
     depth |-> 0]

Stamp(chunks, d) == [i \in 1..Len(chunks) |-> [chunks[i] EXCEPT !.depth = d]]

\* html.EscapeString, byte by byte
EscapeStringByte(c) ==
    CASE c = "&"  -> "&amp;"
      [] c = "<"  -> "&lt;"
      [] c = ">"  -> "&gt;"
      [] c = "\"" -> "&#34;"
      [] c = "'"  -> "&#39;"
      [] c = "&mortyurl=" -> "&amp;mortyurl="
      [] OTHER    -> c

EscapeString(s) == MapSeq(s, EscapeStringByte)

(***************************************************************************)
(* sanitizeCSS.  A style sheet is a sequence of segments: kind "url" is    *)
(* the span of group 2 of one match of CssUrlRegexp, kind "lit" the bytes  *)
(* between two such spans.  Indexes count segments.                        *)
(***************************************************************************)
\* out.Write(css[from:to]) with 0-based segment indexes: the bytes as they are
\* in memory, a url span that is written this way is written unproxified
CssRaw(css, from, to) ==
    [k \in 1..(to - from) |->
        LET seg == css[from + k] IN
        IF seg.kind = "url"
        THEN [kind |-> "rawurl", val |-> sanitizeURI(seg.val).mem]
        ELSE [kind |-> "lit", val |-> seg.val]]

\* for _, s := range urlSlices, from segment i (1-based); st = [startIndex, out]
RECURSIVE CssLoop(_, _, _, _)
CssLoop(rc, css, i, st) ==
    IF i > Len(css) THEN st
    ELSE IF css[i].kind # "url" THEN CssLoop(rc, css, i + 1, st)
    ELSE LET Match(urlStart, urlEnd, r) ==
                 IF ~r.err
                 THEN CssLoop(rc, css, i + 1,
                        [startIndex |-> urlEnd,
                         out |-> st.out \o CssRaw(css, st.startIndex, urlStart)
                                        \o <<[kind |-> "uri", val |-> r.uri]>>])
                 ELSE CssLoop(rc, css, i + 1, st)
         IN  Match(i - 1, i, ProxifyURI(rc, css[i].val))

\* the items written to out
sanitizeCSS(rc, css) ==
    IF \A i \in 1..Len(css) : css[i].kind # "url"
    THEN [k \in 1..Len(css) |-> [kind |-> "lit", val |-> css[k].val]]
    ELSE LET Rest(st) ==
                 IF st.startIndex < Len(css)
                 THEN st.out \o CssRaw(css, st.startIndex, Len(css))
                 ELSE st.out
         IN  Rest(CssLoop(rc, css, 1, [startIndex |-> 0, out |-> <<>>]))

(***************************************************************************)
(* sanitizeAttr, sanitizeAttrs, sanitizeLinkTag, sanitizeMetaTag.  An      *)
(* attribute is [name, value, escaped, css]: css is the value seen as a    *)
(* style sheet, which only a style attribute uses.                         *)
(***************************************************************************)
EscapeItems(items) ==
    [k \in 1..Len(items) |-> [items[k] EXCEPT !.val = EscapeString(@)]]

\* sanitizeAttr writing the attributes that are in no list as well
sanitizeAttrAnyName(rc, tag, attr) ==
    IF attr.name \in {"src", "href", "action"}
    THEN LET Written(r) ==
                 IF ~r.err THEN <<Chunk("urlattr", tag, attr.name, r.uri)>> ELSE <<>>
         IN  Written(ProxifyURI(rc, attr.value))
    ELSE IF attr.name = "style"
    THEN <<CssChunk("styleattr", tag, attr.name,
                    EscapeItems(sanitizeCSS(rc, attr.css)))>>
    ELSE <<Chunk("attr", tag, attr.name, attr.escaped)>>

\* sanitizeAttr(rc, out, attrName, attrValue, escapedAttrValue), lines 846-863
sanitizeAttr(rc, tag, attr) ==
    IF inArray(attr.name, SafeAttributes)
    THEN <<Chunk("attr", tag, attr.name, attr.escaped)>>
    ELSE IF attr.name \in {"src", "href", "action"}
    THEN LET Written(r) ==
                 IF ~r.err THEN <<Chunk("urlattr", tag, attr.name, r.uri)>> ELSE <<>>
         IN  Written(ProxifyURI(rc, attr.value))
    ELSE IF attr.name = "style"
    THEN <<CssChunk("styleattr", tag, attr.name,
                    EscapeItems(sanitizeCSS(rc, attr.css)))>>
    ELSE <<>>

RECURSIVE sanitizeAttrs(_, _, _)
sanitizeAttrs(rc, tag, attrs) ==
    IF attrs = <<>> THEN <<>>
    ELSE sanitizeAttr(rc, tag, Head(attrs)) \o sanitizeAttrs(rc, tag, Tail(attrs))

\* the first loop of sanitizeLinkTag: is the tag excluded, scanning from i
RECURSIVE LinkExcluded(_, _)
LinkExcluded(attrs, i) ==
    IF i > Len(attrs) THEN FALSE
    ELSE IF attrs[i].name = "rel" /\ ~inArray(attrs[i].value, LinkRelSafeValues)
         THEN TRUE
    ELSE IF attrs[i].name = "as" /\ attrs[i].value = <<"script">> THEN TRUE
    ELSE LinkExcluded(attrs, i + 1)

sanitizeLinkTag(rc, attrs) ==
    IF ~LinkExcluded(attrs, 1)
    THEN <<Chunk("open", "link", "", <<>>)>>
         \o sanitizeAttrs(rc, "link", attrs)
         \o <<Chunk("close", "link", "", <<">">>)>>
    ELSE <<>>

\* the attribute loop of sanitizeMetaTag from attribute i;
\* st = [drop, httpEquiv, content]
RECURSIVE MetaScan(_, _, _)
MetaScan(attrs, i, st) ==
    IF i > Len(attrs) THEN st
    ELSE LET Attribute(a, st1) ==
                 IF a.name = "http-equiv"
                    /\ ~inArray(st1.httpEquiv, LinkHttpEquivSafeValues)
                 THEN [st1 EXCEPT !.drop = TRUE]
                 ELSE IF a.name = "charset" THEN [st1 EXCEPT !.drop = TRUE]
                 ELSE MetaScan(attrs, i + 1, st1)
         IN  Attribute(attrs[i],
                 [st EXCEPT
                    !.httpEquiv = IF attrs[i].name = "http-equiv"
                                  THEN ToLower(attrs[i].value) ELSE @,
                    !.content = IF attrs[i].name = "content"
                                THEN attrs[i].value ELSE @])

\* contentUrl without one pair of equal surrounding quotes
StripQuotes(contentUrl) ==
    IF Len(contentUrl) >= 2 /\ contentUrl[1] \in {"'", "\""}
       /\ contentUrl[1] = contentUrl[Len(contentUrl)]
    THEN SubSeq(contentUrl, 2, Len(contentUrl) - 1)
    ELSE contentUrl

\* lines 822-826: the refresh URL r has been proxified
MetaRefresh(content, urlIndex, r) ==
    IF ~r.err
    THEN <<Chunk("refreshprefix", "meta", "content", SliceTo(content, urlIndex)),
           Chunk("refresh", "meta", "content", r.uri)>>
    ELSE <<>>

\* lines 813-834: what is written between "<meta" and ">"
MetaAttrs(rc, attrs, httpEquiv, content, urlIndex) ==
    IF httpEquiv = <<"refresh">> /\ urlIndex # -1
    THEN MetaRefresh(content, urlIndex,
                     ProxifyURI(rc, StripQuotes(SliceFrom(content, urlIndex + 4))))
    ELSE (IF Len(httpEquiv) > 0
          THEN <<Chunk("httpequiv", "meta", "http-equiv", httpEquiv)>>
          ELSE <<>>)
         \o sanitizeAttrs(rc, "meta", attrs)

\* lines 811-837: st is the state of the attribute loop when it ended
MetaScanned(rc, attrs, st) ==
    IF st.drop THEN <<>>
    ELSE <<Chunk("open", "meta", "", <<>>)>>
         \o MetaAttrs(rc, attrs, st.httpEquiv, st.content,
                      ByteIndex(ToLower(st.content), "url="))
         \o <<Chunk("close", "meta", "", <<">">>)>>

sanitizeMetaTag(rc, attrs) ==
    MetaScanned(rc, attrs,
                MetaScan(attrs, 1, [drop |-> FALSE, httpEquiv |-> <<>>,
                                    content |-> <<>>]))

(***************************************************************************)
(* sanitizeHTML.  A token is what one decoder.Next() yields:               *)
(*   type   StartTag, SelfClosingTag, EndTag, Text, Comment or Doctype     *)
(*   tag    the tag name, attrs the attributes [name, value, css]          *)
(*   text   the raw bytes of a text, comment or doctype token              *)
(*   css    the raw bytes seen as a style sheet (sanitizeCSS)              *)
(*   sub    the raw bytes seen as a document (the tokens of a nested       *)
(*          sanitizeHTML over decoder.Raw())                               *)
(*   refill "" or, when reading this token made the tokenizer move its     *)
(*          buffer, the bytes that now lie where an earlier tag name lay.  *)
(* An element of the unsafe stack is [name, alias]: alias says that the    *)
(* slice is the tokenizer's own buffer (line 753) and not a copy (613-615).*)
(***************************************************************************)
\* what decoder.Next() does to the slices that alias the tokenizer's buffer
Refill(stack, r) ==
    IF r = "" THEN stack
    ELSE [i \in 1..Len(stack) |->
            IF stack[i].alias THEN [stack[i] EXCEPT !.name = r] ELSE stack[i]]

\* lines 640-650: the attributes with their escaped values
WithEscaped(attrs) ==
    [i \in 1..Len(attrs) |->
        [name |-> attrs[i].name, value |-> attrs[i].value,
         escaped |-> EscapeString(attrs[i].value), css |-> attrs[i].css]]

\* a <base> tag that leaves the base URL as it is
BaseHrefIgnored(base, attrs) == base

\* lines 620-631: the base URL after a <base> tag, attribute by attribute
RECURSIVE BaseHref(_, _)
BaseHref(base, attrs) ==
    IF attrs = <<>> THEN base
    ELSE LET Href(a, p) ==
                 BaseHref(IF a.name = "href" /\ ~p.err THEN p.url ELSE base, Tail(attrs))
         IN  Href(Head(attrs), Parse(Head(attrs).value))

\* the index of the first attribute named name, 0 when there is none
FirstAttr(attrs, name) ==
    CHOOSE k \in 0..Len(attrs) :
        /\ (k # 0 => attrs[k].name = name)
        /\ \A j \in 1..Len(attrs) : attrs[j].name = name => (k # 0 /\ k <= j)

\* lines 684-692 for the action attribute at index i (0: none); the value is
\* read after sanitizeAttrs has passed it to ProxifyURI
FormAction(rc, attrs, i) ==
    IF i = 0 THEN rc.BaseURL
    ELSE mergeURIs(rc.BaseURL, Parse(sanitizeURI(attrs[i].value).mem))

\* lines 682-692: the URL of a form
FormURL(rc, attrs) == FormAction(rc, attrs, FirstAttr(attrs, "action"))

\* lines 693-698: HtmlFormExtension
FormExtension(rc, attrs) ==
    LET Execute(urlStr, key) ==
            <<Chunk("template", "form", "mortyurl", urlStr)>>
            \o (IF key # <<>> THEN <<Chunk("template", "form", "mortyhash", key)>>
                ELSE <<>>)
        Hashed(urlStr) ==
            Execute(urlStr, IF rc.Key # NoKey THEN hash(urlStr, rc.Key) ELSE <<>>)
    IN  Hashed(String(FormURL(rc, attrs)))

\* HtmlBodyExtension with HTMLBodyExtParam{rc.BaseURL.String(), len(rc.Key) > 0}
BodyExtension(rc) ==
    <<Chunk("template", "body",
            IF rc.Key # NoKey THEN "banner-readonly" ELSE "banner",
            String(rc.BaseURL))>>

\* lines 638-704: a start or self-closing tag that is written
WriteStartTag(rc, tok, attrs) ==
    <<Chunk("open", tok.tag, "", <<>>)>>
    \o sanitizeAttrs(rc, tok.tag, attrs)
    \o <<Chunk("close", tok.tag, "",
               IF tok.type = "SelfClosingTag" THEN <<" />">> ELSE <<">">>)>>
    \o (IF tok.tag = "head" THEN <<Chunk("template", "head", "metas", <<>>)>>
        ELSE <<>>)
    \o (IF tok.tag = "form" THEN FormExtension(rc, attrs) ELSE <<>>)

\* st = [unsafeElements, state, rc, out]
RECURSIVE sanitizeHTML(_, _, _)
RECURSIVE sanitizeTokens(_, _)
RECURSIVE TokenSafe(_, _)

\* one iteration of the token loop with an empty unsafe stack (605-747)
TokenSafe(st, tok) ==
    LET emit(chunks) == [st EXCEPT !.out = @ \o Stamp(chunks, Len(st.unsafeElements))]
    IN
    IF tok.type \in {"StartTag", "SelfClosingTag"}
    THEN IF inArray(tok.tag, UnsafeElements)
         THEN IF tok.type # "SelfClosingTag"
              THEN [st EXCEPT !.unsafeElements =
                                 Append(@, [name |-> tok.tag, alias |-> FALSE])]
              ELSE st
         ELSE IF tok.tag = "base"
         THEN [st EXCEPT !.rc.BaseURL = BaseHref(@, tok.attrs)]
         ELSE IF tok.tag = "noscript"
         THEN [st EXCEPT !.state = StateInNoscript]
         ELSE IF tok.tag = "link"
         THEN emit(sanitizeLinkTag(st.rc, WithEscaped(tok.attrs)))
         ELSE IF tok.tag = "meta"
         THEN emit(sanitizeMetaTag(st.rc, WithEscaped(tok.attrs)))
         ELSE [emit(WriteStartTag(st.rc, tok, WithEscaped(tok.attrs))) EXCEPT
                 !.state = IF tok.type = "StartTag" /\ tok.tag = "style"
                           THEN StateInStyle ELSE @]
    ELSE IF tok.type = "EndTag"
    THEN IF tok.tag = "body"
         THEN [emit(BodyExtension(st.rc)
                    \o <<Chunk("end", tok.tag, "", <<>>)>>)
                 EXCEPT !.rc.BodyInjected = TRUE]
         ELSE IF tok.tag = "style"
         THEN [emit(<<Chunk("end", tok.tag, "", <<>>)>>) EXCEPT !.state = StateDefault]
         ELSE IF tok.tag = "noscript"
         THEN [st EXCEPT !.state = StateDefault]
         ELSE emit(<<Chunk("end", tok.tag, "", <<>>)>>)
    ELSE IF tok.type = "Text"
    THEN IF st.state = StateDefault
         THEN emit(<<Chunk("text", "", "", <<tok.text>>)>>)
         ELSE IF st.state = StateInStyle
         THEN emit(<<CssChunk("csstext", "", "", sanitizeCSS(st.rc, tok.css))>>)
         ELSE IF st.state = StateInNoscript
         THEN LET Returned(r) == [st EXCEPT !.rc = r.rc, !.out = r.out]
              IN  Returned(sanitizeHTML(st.rc, st.out, tok.sub))
         ELSE st
    ELSE IF tok.type = "Doctype"
    THEN emit(<<Chunk("doctype", "", "", <<tok.text>>)>>)
    ELSE st

\* one iteration of the token loop with a non-empty unsafe stack (748-762)
TokenUnsafe(st, tok) ==
    IF tok.type \in {"StartTag", "SelfClosingTag"}
    THEN IF inArray(tok.tag, UnsafeElements)
         THEN [st EXCEPT !.unsafeElements =
                            Append(@, [name |-> tok.tag, alias |-> TRUE])]
         ELSE st
    ELSE IF tok.type = "EndTag"
    THEN IF st.unsafeElements[Len(st.unsafeElements)].name = tok.tag
         THEN [st EXCEPT !.unsafeElements = Take(@, Len(@) - 1)]
         ELSE st
    ELSE st

\* the body of the loop with the end tag of noscript written
TokenBodyNoscriptEnd(st, tok) ==
    IF Len(st.unsafeElements) = 0
    THEN IF tok.type = "EndTag" /\ tok.tag = "noscript"
         THEN [st EXCEPT !.state = StateDefault,
                         !.out = @ \o <<Chunk("end", tok.tag, "", <<>>)>>]
         ELSE TokenSafe(st, tok)
    ELSE TokenUnsafe(st, tok)

\* the body of the loop without the test of the stack
TokenBodyUnguarded(st, tok) == TokenSafe(st, tok)

\* the body of the loop, lines 604-762
TokenBody(st, tok) ==
    IF Len(st.unsafeElements) = 0 THEN TokenSafe(st, tok) ELSE TokenUnsafe(st, tok)

\* decoder.Next() and the body of the loop
sanitizeToken(st, tok) ==
    TokenBody([st EXCEPT !.unsafeElements = Refill(@, tok.refill)], tok)

sanitizeTokens(st, toks) ==
    IF toks = <<>> THEN st
    ELSE sanitizeTokens(sanitizeToken(st, Head(toks)), Tail(toks))

\* sanitizeHTML(rc, out, htmlDoc): returns [rc, out]
sanitizeHTML(rc, out, toks) ==
    LET Return(st) == [rc |-> st.rc, out |-> st.out]
    IN  Return(sanitizeTokens([unsafeElements |-> <<>>, state |-> StateDefault,
                               rc |-> rc, out |-> out], toks))

(***************************************************************************)
(* Package contenttype.  A header value is [nil, media, params]: media is  *)
(* the byte string before the first ";", params the parameters after it in *)
(* order, each [name, value], a name "" standing for a parameter that has  *)
(* no valid name=value form.  A ContentType is a record of three byte      *)
(* strings and the map Parameters, a function from names to values.        *)
(***************************************************************************)
NoParameters == [k \in {} |-> ""]

\* strings.ToLower of a parameter name
LowerName(name) == IF name = "CHARSET" THEN "charset" ELSE name

\* checkMediaTypeDisposition: token [ "/" token ]
MediaOk(media) ==
    LET Slash(i) ==
            /\ i # 1
            /\ i = 0 \/ (i < Len(media) /\ ~Contains(Drop(media, i), "/"))
    IN  /\ media # <<>>
        /\ ~Contains(media, "sp")
        /\ Slash(IndexOf(media, "/"))

\* mime.ParseMediaType: [err, mimetype, params]
ParseMediaType(header) ==
    IF \/ ~MediaOk(header.media)
       \/ \E i \in 1..Len(header.params) : header.params[i].name = ""
       \/ \E i, j \in 1..Len(header.params) :
             i # j /\ LowerName(header.params[i].name) = LowerName(header.params[j].name)
    THEN [err |-> TRUE, mimetype |-> <<>>, params |-> NoParameters]
    ELSE [err |-> FALSE, mimetype |-> ToLower(header.media),
          params |-> [k \in {LowerName(header.params[i].name) :
                               i \in 1..Len(header.params)} |->
                        header.params[CHOOSE i \in 1..Len(header.params) :
                                        LowerName(header.params[i].name) = k].value]]

\* ParseContentType: [err, ct]
ParseContentType(header) ==
    LET Type(top, sub, suffix, params) ==
            [err |-> FALSE,
             ct |-> [TopLevelType |-> top, SubType |-> sub, Suffix |-> suffix,
                     Parameters |-> params]]
        SubSplit(top, rest, plusI, params) ==
            IF plusI = 0 THEN Type(top, rest, <<>>, params)
            ELSE Type(top, Take(rest, plusI - 1), Drop(rest, plusI), params)
        Split(mimetype, slashI, params) ==
            IF slashI = 0 THEN Type(mimetype, <<>>, <<>>, params)
            ELSE SubSplit(Take(mimetype, slashI - 1), Drop(mimetype, slashI),
                          IndexOf(Drop(mimetype, slashI), "+"), params)
        Parsed(m) ==
            IF m.err
            THEN [err |-> TRUE,
                  ct |-> [TopLevelType |-> <<>>, SubType |-> <<>>, Suffix |-> <<>>,
                          Parameters |-> m.params]]
            ELSE Split(m.mimetype, IndexOf(m.mimetype, "/"), m.params)
    IN  Parsed(ParseMediaType(header))

\* m[k] of a Go map[string]string: the zero value "" for a missing key
MapIndex(m, k) == IF k \in DOMAIN m THEN m[k] ELSE ""

\* contentType.Equals(other)
Equals(contentType, other) ==
    IF \/ contentType.TopLevelType # other.TopLevelType
       \/ contentType.SubType # other.SubType
       \/ contentType.Suffix # other.Suffix
       \/ Cardinality(DOMAIN contentType.Parameters)
             # Cardinality(DOMAIN other.Parameters)
    THEN FALSE
    ELSE \A k \in DOMAIN contentType.Parameters :
            MapIndex(other.Parameters, k) = contentType.Parameters[k]

\* NewFilterEquals with a Suffix that is compared literally
NewFilterEqualsLiteralSuffix(TopLevelType, SubType, Suffix, contentType) ==
    /\ (TopLevelType # <<"*">> /\ TopLevelType = contentType.TopLevelType)
       \/ TopLevelType = <<"*">>
    /\ (SubType # <<"*">> /\ SubType = contentType.SubType) \/ SubType = <<"*">>
    /\ Suffix = contentType.Suffix

\* the Filter that NewFilterEquals(TopLevelType, SubType, Suffix) returns,
\* applied to contentType
NewFilterEquals(TopLevelType, SubType, Suffix, contentType) ==
    /\ (TopLevelType # <<"*">> /\ TopLevelType = contentType.TopLevelType)
       \/ TopLevelType = <<"*">>
    /\ (SubType # <<"*">> /\ SubType = contentType.SubType) \/ SubType = <<"*">>
    /\ (Suffix # <<"*">> /\ Suffix = contentType.Suffix) \/ Suffix = <<"*">>

\* the Filter that NewFilterOr returns, for a list of NewFilterEquals
\* filters given by their three arguments
NewFilterOr(contentTypeFilterList, contentType) ==
    \E i \in 1..Len(contentTypeFilterList) :
        NewFilterEquals(contentTypeFilterList[i][1], contentTypeFilterList[i][2],
                        contentTypeFilterList[i][3], contentType)

\* FilterParameters that keeps every key the map parameters holds
FilterParametersAnyValue(contentType, parameters) ==
    [contentType EXCEPT !.Parameters =
        [k \in DOMAIN contentType.Parameters \cap DOMAIN parameters |->
           contentType.Parameters[k]]]

\* contentType.FilterParameters(parameters)
FilterParameters(contentType, parameters) ==
    [contentType EXCEPT !.Parameters =
        [k \in {n \in DOMAIN contentType.Parameters :
                  n \in DOMAIN parameters /\ parameters[n]} |->
           contentType.Parameters[k]]]

\* mime.isToken: not empty, and no byte that is not a token byte
IsToken(s) == s # <<>> /\ ~Contains(s, "sp") /\ ~Contains(s, "/")

\* the parameter names in the order of sort.Strings: upper case first
SortedNames == <<"CHARSET", "a", "charset">>

\* mime.FormatMediaType(t, param): the header value written, the value with
\* the empty media for the result ""
FormatMediaType(t, param) ==
    LET Invalid == [nil |-> FALSE, media |-> <<>>, params |-> <<>>]
        Names == SelectSeq(SortedNames, LAMBDA n : n \in DOMAIN param)
        Written(media) ==
            [nil |-> FALSE, media |-> media,
             params |-> [i \in 1..Len(Names) |->
                           [name |-> LowerName(Names[i]), value |-> param[Names[i]]]]]
        Typed(slashI) ==
            IF slashI = 0
            THEN IF IsToken(t) THEN Written(ToLower(t)) ELSE Invalid
            ELSE IF IsToken(Take(t, slashI - 1)) /\ IsToken(Drop(t, slashI))
                 THEN Written(ToLower(Take(t, slashI - 1)) \o <<"/">>
                                \o ToLower(Drop(t, slashI)))
                 ELSE Invalid
    IN  Typed(IndexOf(t, "/"))

\* contentType.String()
ContentTypeString(contentType) ==
    FormatMediaType(
        IF contentType.Suffix = <<>>
        THEN IF contentType.SubType = <<>>
             THEN contentType.TopLevelType
             ELSE contentType.TopLevelType \o <<"/">> \o contentType.SubType
        ELSE contentType.TopLevelType \o <<"/">> \o contentType.SubType
                \o <<"+">> \o contentType.Suffix,
        contentType.Parameters)

AllowedContentTypeFilter(contentType) ==
    NewFilterOr(<< <<<<"text">>, <<"html">>, <<>>>>,
                   <<<<"application">>, <<"xhtml">>, <<"xml">>>>,
                   <<<<"text">>, <<"css">>, <<>>>>,
                   <<<<"image">>, <<"gif">>, <<>>>>,
                   <<<<"image">>, <<"png">>, <<>>>>,
                   <<<<"image">>, <<"jpeg">>, <<>>>>,
                   <<<<"image">>, <<"pjpeg">>, <<>>>>,
                   <<<<"image">>, <<"webp">>, <<>>>>,
                   <<<<"image">>, <<"tiff">>, <<>>>>,
                   <<<<"image">>, <<"vnd.microsoft.icon">>, <<>>>>,
                   <<<<"image">>, <<"bmp">>, <<>>>>,
                   <<<<"image">>, <<"x-ms-bmp">>, <<>>>>,
                   <<<<"image">>, <<"x-icon">>, <<>>>>,
                   <<<<"application">>, <<"font-otf">>, <<>>>>,
                   <<<<"application">>, <<"font-ttf">>, <<>>>>,
                   <<<<"application">>, <<"font-woff">>, <<>>>>,
                   <<<<"application">>, <<"vnd.ms-fontobject">>, <<>>>> >>,
                contentType)

AllowedContentTypeAttachmentFilter(contentType) ==
    NewFilterOr(<< <<<<"text">>, <<"csv">>, <<>>>>,
                   <<<<"text">>, <<"tab-separated-values">>, <<>>>>,
                   <<<<"text">>, <<"plain">>, <<>>>>,
                   <<<<"application">>, <<"json">>, <<>>>>,
                   <<<<"application">>, <<"x-latex">>, <<>>>>,
                   <<<<"application">>, <<"pdf">>, <<>>>>,
                   <<<<"application">>, <<"vnd.oasis.opendocument.text">>, <<>>>>,
                   <<<<"application">>, <<"vnd.oasis.opendocument.spreadsheet">>, <<>>>>,
                   <<<<"application">>, <<"vnd.oasis.opendocument.presentation">>, <<>>>>,
                   <<<<"application">>, <<"vnd.oasis.opendocument.graphics">>, <<>>>>,
                   <<<<"application">>, <<"zip">>, <<>>>>,
                   <<<<"application">>, <<"gzip">>, <<>>>>,
                   <<<<"application">>, <<"x-compressed">>, <<>>>>,
                   <<<<"application">>, <<"x-gtar">>, <<>>>>,
                   <<<<"application">>, <<"x-compress">>, <<>>>>,
                   <<<<"application">>, <<"octet-stream">>, <<>>>> >>,
                contentType)

AllowedContentTypeParameters == [k \in {"charset"} |-> TRUE]

(***************************************************************************)
(* Proxy.RequestHandler and Proxy.ProcessUri.  A Proxy is [Key,            *)
(* FollowRedirect].  A request ctx is [path, method, queryArgs, postArgs,  *)
(* disposition]: the args are sequences of [k, v], disposition is the      *)
(* Content-Disposition header of the request ("nil", "filename" for one    *)
(* with a filename parameter, "other").  A byte slice that may be nil is   *)
(* [nil, b].  What has been answered is a record:                          *)
(*   status, page ("none", "app", "main", "exit", "redirect", "body"),     *)
(*   location, contentType, disposition and body = [route, chunks], route  *)
(*   being "none", "html", "css" or "raw".                                 *)
(* An upstream response is [err, status, loc, ctype, decode, body]: err is *)
(* "", "timeout" or "other"; decode is what charset.DetermineEncoding and  *)
(* the decoder make of the body ("nop", "ok", "fail"); body is [html,      *)
(* css], the body bytes seen as tokens and as a style sheet.               *)
(***************************************************************************)
NilBytes == [nil |-> TRUE, b |-> <<>>]

Bytes(b) == [nil |-> FALSE, b |-> b]

NoDisposition == [nil |-> TRUE, filename |-> <<>>, fileName |-> <<>>]

CType(top, sub, suffix, params) ==
    [TopLevelType |-> top, SubType |-> sub, Suffix |-> suffix, Parameters |-> params]

\* a fresh fasthttp response: status 200, nothing written
NoResponse ==
    [status |-> 200, page |-> "none", location |-> <<>>,
     contentType |-> CType(<<"text">>, <<"plain">>, <<>>, [k \in {"charset"} |-> "utf-8"]),
     disposition |-> NoDisposition,
     body |-> [route |-> "none", chunks |-> <<>>],
     sets |-> 0, writes |-> <<>>]

\* the response of a ctx that holds response after the calls that make up
\* answer: sets counts the calls of SetStatusCode, writes lists what the
\* calls of Write have written, in their order
Respond(response, answer) ==
    [answer EXCEPT !.sets = response.sets + @,
                   !.writes = response.writes \o @]

serveMainPage(statusCode) ==
    [NoResponse EXCEPT
        !.status = statusCode, !.page = "main",
        !.sets = 1, !.writes = <<"main">>,
        !.contentType = CType(<<"text">>, <<"html">>, <<>>,
                              [k \in {"charset"} |-> "UTF-8"])]

serveExitMortyPage(uri) ==
    [NoResponse EXCEPT
        !.status = 403, !.page = "exit",
        !.sets = 1, !.writes = <<"exit">>,
        !.contentType = CType(<<"text">>, <<"html">>, <<>>, NoParameters),
        !.body = [route |-> "none",
                  chunks |-> <<Chunk("template", "a", "href", EscapeString(String(uri)))>>]]

\* appRequestHandler: [handled, response]
appRequestHandler(ctx) ==
    IF ctx.path = "/robots.txt"
    THEN [handled |-> TRUE,
          response |-> [NoResponse EXCEPT
                          !.page = "app", !.writes = <<"app">>,
                          !.contentType = CType(<<"text">>, <<"plain">>, <<>>, NoParameters)]]
    ELSE IF ctx.path = "/favicon.ico"
    THEN [handled |-> TRUE,
          response |-> [NoResponse EXCEPT
                          !.page = "app", !.writes = <<"app">>,
                          !.contentType = CType(<<"image">>, <<"png">>, <<>>, NoParameters)]]
    ELSE [handled |-> FALSE, response |-> NoResponse]

\* Args.PeekBytes
PeekBytes(args, name) ==
    IF \E i \in 1..Len(args) : args[i].k = name
    THEN Bytes(args[CHOOSE i \in 1..Len(args) :
                      args[i].k = name /\ \A j \in 1..(i - 1) : args[j].k # name].v)
    ELSE NilBytes

\* Args.DelBytes
DelBytes(args, name) ==
    LET Other(a) == a.k # name IN SelectSeq(args, Other)

\* Args.QueryString
RECURSIVE QueryString(_)
QueryString(args) ==
    IF args = <<>> THEN <<>>
    ELSE QueryEscape(<<Head(args).k>>) \o <<"=">> \o QueryEscape(Head(args).v)
         \o (IF Len(args) > 1 THEN <<"&">> ELSE <<>>) \o QueryString(Tail(args))

\* popRequestParam that leaves the parameter in the query arguments
popRequestParamKept(ctx, paramName) ==
    IF PeekBytes(ctx.queryArgs, paramName).nil
    THEN [param |-> PeekBytes(ctx.postArgs, paramName),
          ctx |-> [ctx EXCEPT !.postArgs = DelBytes(@, paramName)]]
    ELSE [param |-> PeekBytes(ctx.queryArgs, paramName), ctx |-> ctx]

\* popRequestParam: [param, ctx]
popRequestParam(ctx, paramName) ==
    IF PeekBytes(ctx.queryArgs, paramName).nil
    THEN [param |-> PeekBytes(ctx.postArgs, paramName),
          ctx |-> [ctx EXCEPT !.postArgs = DelBytes(@, paramName),
                              !.queryArgs = DelBytes(@, paramName)]]
    ELSE [param |-> PeekBytes(ctx.queryArgs, paramName),
          ctx |-> [ctx EXCEPT !.queryArgs = DelBytes(@, paramName)]]

\* filepath.Base
Base(path) ==
    LET Last(str) == Drop(str, LastIndexOf(str, "/"))
        Strip(str) == IF str = <<>> THEN <<"/">> ELSE Last(str)
    IN  IF path = <<>> THEN <<".">>
        ELSE Strip(IF path[Len(path)] = "/" THEN Take(path, Len(path) - 1) ELSE path)

\* contentDispositionForceAttachment
contentDispositionForceAttachment(disposition, url) ==
    [nil |-> FALSE,
     filename |-> IF disposition = "filename" THEN <<"client">> ELSE <<>>,
     fileName |-> IF disposition = "filename" THEN <<>> ELSE Base(url.Path)]

\* ProcessUri lines 338-342: the target has been parsed
CheckTarget(target, parsedURI) ==
    IF (parsedURI.Scheme # <<"http">> /\ parsedURI.Scheme # <<"https">>)
       \/ HasSuffix(parsedURI.Host, <<".onion">>)
    THEN [fetch |-> FALSE, target |-> target, response |-> serveExitMortyPage(parsedURI)]
    ELSE [fetch |-> TRUE, target |-> target, response |-> NoResponse]

\* ProcessUri lines 329-342: "https://" has been put before the target
ParsedAgain(target, p) ==
    IF p.err
    THEN [fetch |-> FALSE, target |-> target, response |-> serveMainPage(500)]
    ELSE CheckTarget(target, p.url)

\* ProcessUri lines 323-342: p is what url.Parse(requestURIStr) returned
ParsedTarget(requestURIStr, p) ==
    IF p.err
    THEN [fetch |-> FALSE, target |-> requestURIStr, response |-> serveMainPage(500)]
    ELSE IF p.url.Scheme = <<>>
    THEN ParsedAgain(<<"https", ":", "/", "/">> \o requestURIStr,
                     Parse(<<"https", ":", "/", "/">> \o requestURIStr))
    ELSE CheckTarget(requestURIStr, p.url)

\* ProcessUri lines 321-342: what becomes of requestURIStr before a request
\* is sent: [fetch, target, response]
BeforeFetch(requestURIStr) == ParsedTarget(requestURIStr, Parse(requestURIStr))

\* ProcessUri lines 481-505: the body goes out according to the MIME type
WriteBody(p, ctx, parsedURI, contentType, disposition, resp) ==
    LET Html(r) ==
            [route |-> "html",
             chunks |-> r.out \o (IF ~r.rc.BodyInjected THEN BodyExtension(r.rc)
                                  ELSE <<>>)]
    IN  IF contentType.SubType = <<"css">> /\ contentType.Suffix = <<>>
        THEN [NoResponse EXCEPT
                !.page = "body", !.contentType = contentType,
                !.writes = <<"body">>,
                !.body = [route |-> "css",
                          chunks |-> <<CssChunk("csstext", "", "",
                                        sanitizeCSS([Key |-> p.Key, BaseURL |-> parsedURI,
                                                     BodyInjected |-> FALSE],
                                                    resp.body.css))>>]]
        ELSE IF contentType.SubType = <<"html">> /\ contentType.Suffix = <<>>
        THEN [NoResponse EXCEPT
                !.page = "body", !.contentType = contentType,
                !.writes = <<"body">>,
                !.body = Html(sanitizeHTML([Key |-> p.Key, BaseURL |-> parsedURI,
                                            BodyInjected |-> FALSE],
                                           <<>>, resp.body.html))]
        ELSE [NoResponse EXCEPT
                !.page = "body", !.contentType = contentType,
                !.writes = <<"body">>,
                !.disposition = disposition,
                !.body = [route |-> "raw",
                          chunks |-> <<Chunk("raw", "", "",
                                             IF contentType.TopLevelType = <<"text">>
                                                /\ resp.decode = "ok"
                                             THEN <<"decoded">> ELSE <<"body">>)>>]]

\* ConvertBody that does not return after the landing page of a decoder error
ConvertBodyNoReturn(p, ctx, parsedURI, contentType, disposition, resp) ==
    Respond(
      IF contentType.TopLevelType = <<"text">> /\ resp.decode = "fail"
      THEN serveMainPage(503) ELSE NoResponse,
      WriteBody(p, ctx, parsedURI,
           FilterParameters(
             IF contentType.TopLevelType = <<"text">>
             THEN [contentType EXCEPT !.Parameters =
                     [k \in DOMAIN @ \cup {"charset"} |->
                        IF k = "charset" THEN "UTF-8" ELSE @[k]]]
             ELSE contentType,
             AllowedContentTypeParameters),
           disposition, resp))

\* ProcessUri lines 455-479: conversion to UTF-8 and the parameters
ConvertBody(p, ctx, parsedURI, contentType, disposition, resp) ==
    IF contentType.TopLevelType = <<"text">> /\ resp.decode = "fail"
    THEN serveMainPage(503)
    ELSE WriteBody(p, ctx, parsedURI,
           FilterParameters(
             IF contentType.TopLevelType = <<"text">>
             THEN [contentType EXCEPT !.Parameters =
                     [k \in DOMAIN @ \cup {"charset"} |->
                        IF k = "charset" THEN "UTF-8" ELSE @[k]]]
             ELSE contentType,
             AllowedContentTypeParameters),
           disposition, resp)

\* XhtmlHack that leaves the suffix in place
XhtmlHackKeepSuffix(contentType) ==
    IF contentType.SubType = <<"xhtml">>
    THEN [contentType EXCEPT !.TopLevelType = <<"text">>, !.SubType = <<"html">>]
    ELSE contentType

\* ProcessUri lines 447-452: "replace */xhtml by text/html"
XhtmlHack(contentType) ==
    IF contentType.SubType = <<"xhtml">>
    THEN [contentType EXCEPT !.TopLevelType = <<"text">>, !.SubType = <<"html">>,
                             !.Suffix = <<>>]
    ELSE contentType

\* line 431: the Content-Disposition header of the request
RequestDisposition(ctx) ==
    IF ctx.disposition = "nil" THEN NoDisposition
    ELSE [nil |-> FALSE,
          filename |-> IF ctx.disposition = "filename" THEN <<"client">> ELSE <<>>,
          fileName |-> <<>>]

\* CheckContentType that leaves the Content-Disposition of the request as it is
CheckContentTypeNoAttachment(p, ctx, parsedURI, contentType, inline, resp) ==
    IF ~inline /\ ~AllowedContentTypeAttachmentFilter(contentType)
    THEN serveMainPage(403)
    ELSE ConvertBody(p, ctx, parsedURI, XhtmlHack(contentType),
                     RequestDisposition(ctx), resp)

\* CheckContentType that sends every type not shown inline as an attachment
CheckContentTypeAttachAll(p, ctx, parsedURI, contentType, inline, resp) ==
    ConvertBody(p, ctx, parsedURI, XhtmlHack(contentType),
                IF ~inline
                THEN contentDispositionForceAttachment(ctx.disposition, parsedURI)
                ELSE RequestDisposition(ctx),
                resp)

\* ProcessUri lines 433-479: inline says that AllowedContentTypeFilter accepts
CheckContentType(p, ctx, parsedURI, contentType, inline, resp) ==
    IF ~inline /\ ~AllowedContentTypeAttachmentFilter(contentType)
    THEN serveMainPage(403)
    ELSE ConvertBody(p, ctx, parsedURI, XhtmlHack(contentType),
                     IF ~inline
                     THEN contentDispositionForceAttachment(ctx.disposition, parsedURI)
                     ELSE RequestDisposition(ctx),
                     resp)

\* ProcessUri lines 424-479: c is what ParseContentType returned
ParsedContentType(p, ctx, parsedURI, c, resp) ==
    IF c.err THEN serveMainPage(503)
    ELSE CheckContentType(p, ctx, parsedURI, c.ct, AllowedContentTypeFilter(c.ct), resp)

\* ProcessUri lines 412-479: an upstream response with status 200
Status200(p, ctx, parsedURI, resp) ==
    IF resp.ctype.nil THEN serveMainPage(503)
    ELSE ParsedContentType(p, ctx, parsedURI, ParseContentType(resp.ctype), resp)

\* AfterFetch that answers every transport error with 500
AfterFetchAnyError500(p, ctx, parsedURI, resp) ==
    LET Redirect(r) ==
            IF ~r.err
            THEN [NoResponse EXCEPT !.status = resp.status, !.page = "redirect",
                                    !.location = r.uri, !.sets = 1]
            ELSE serveMainPage(resp.status)
    IN  IF resp.err # "" THEN serveMainPage(500)
        ELSE IF resp.status = 200 THEN Status200(p, ctx, parsedURI, resp)
        ELSE IF resp.status \in {301, 302, 303, 307, 308} /\ ~resp.loc.nil
        THEN Redirect(ProxifyURI([Key |-> p.Key, BaseURL |-> parsedURI,
                                  BodyInjected |-> FALSE], resp.loc.b))
        ELSE serveMainPage(resp.status)

\* ProcessUri lines 365-410 for a response that is no redirect to follow:
\* the answer to the client
AfterFetch(p, ctx, parsedURI, resp) ==
    LET Redirect(r) ==
            IF ~r.err
            THEN [NoResponse EXCEPT !.status = resp.status, !.page = "redirect",
                                    !.location = r.uri, !.sets = 1]
            ELSE serveMainPage(resp.status)
    IN  IF resp.err = "timeout" THEN serveMainPage(504)
        ELSE IF resp.err # "" THEN serveMainPage(500)
        ELSE IF resp.status = 200 THEN Status200(p, ctx, parsedURI, resp)
        ELSE IF resp.status \in {301, 302, 303, 307, 308} /\ ~resp.loc.nil
        THEN Redirect(ProxifyURI([Key |-> p.Key, BaseURL |-> parsedURI,
                                  BodyInjected |-> FALSE], resp.loc.b))
        ELSE serveMainPage(resp.status)

\* lines 379-380: does ProcessUri follow the redirect of resp
Follows(p, ctx, resp) ==
    /\ resp.err = ""
    /\ resp.status \in {301, 302, 303, 307, 308}
    /\ ~resp.loc.nil
    /\ p.FollowRedirect
    /\ ctx.method = "GET"

\* RequestHandler lines 307-315: the query string goes onto requestURI
MergeQuery(requestURI, requestURIQuery) ==
    IF Len(requestURIQuery) > 0
    THEN requestURI \o (IF Contains(requestURI, "?") THEN <<"&">> ELSE <<"?">>)
         \o requestURIQuery
    ELSE requestURI

(***************************************************************************)
(* Inputs.                                                                 *)
(***************************************************************************)
\* byte strings used as URLs
UrlRel == <<".", "/", "x">>

UrlAbs == <<"http", ":", "/", "/", "g", "/", "y">>

UrlJs == <<"JAVA", "sp", "script", ":", "x">>

UrlBad == <<"http", ":", "/", "/", "g", "/", "%zz">>

UrlFrag == <<"#", "f">>

UrlData == <<"data", ":", "image", "/", "png", "x">>

\* the document URLs a request starts with
BaseURLs ==
    {Parse(<<"http", ":", "/", "/", "h", "/">>).url,
     Parse(<<"http", ":", "/", "/", "u", "@", "h", "/", "x", "?", "q">>).url}

RequestConfigs ==
    {[Key |-> k, BaseURL |-> b, BodyInjected |-> FALSE] :
        k \in {NoKey, "k1"}, b \in BaseURLs}

Attr(name, value) == [name |-> name, value |-> value, css |-> <<>>]

\* a style sheet with one good and one failing url(...)
CssLit(v) == [kind |-> "lit", val |-> v]

CssUrl(v) == [kind |-> "url", val |-> v]

CssDocs ==
    {<<CssLit(<<"a{}">>)>>,
     <<CssLit(<<"url(">>), CssUrl(UrlAbs), CssLit(<<")">>)>>,
     <<CssLit(<<"url(">>), CssUrl(UrlBad), CssLit(<<")">>)>>,
     <<CssLit(<<"url(">>), CssUrl(UrlBad), CssLit(<<")url(">>), CssUrl(UrlRel),
       CssLit(<<")">>)>>}

StyleAttr(css) == [name |-> "style", value |-> <<"css">>, css |-> css]

Tok(type, tag, attrs) ==
    [type |-> type, tag |-> tag, attrs |-> attrs, text |-> "", css |-> <<>>,
     sub |-> <<>>, refill |-> ""]

TextTok(text, css, sub) ==
    [type |-> "Text", tag |-> "", attrs |-> <<>>, text |-> text, css |-> css,
     sub |-> sub, refill |-> ""]

AttrLists(tag) ==
    CASE tag = "a" ->
           {<<>>, <<Attr("href", UrlRel), Attr("onclick", <<"alert">>)>>,
            <<Attr("href", UrlJs)>>, <<Attr("src", UrlBad)>>,
            <<Attr("title", <<"<", "t">>)>>, <<Attr("href", UrlFrag)>>,
            <<Attr("src", UrlData)>>}
           \cup {<<StyleAttr(c)>> : c \in CssDocs}
      [] tag = "base" ->
           {<<Attr("href", <<"http", ":", "/", "/", "g", "/">>)>>,
            <<Attr("href", <<"/", "y">>)>>,
            <<Attr("href", UrlBad)>>}
      [] tag = "link" ->
           {<<Attr("rel", <<"stylesheet">>), Attr("href", UrlRel)>>,
            <<Attr("rel", <<"preload">>), Attr("href", UrlRel)>>,
            <<Attr("as", <<"script">>), Attr("href", UrlRel)>>}
      [] tag = "meta" ->
           {<<Attr("http-equiv", <<"Refresh">>),
              Attr("content", <<"0;", "URL=", "'"  >> \o UrlAbs \o <<"'">>)>>,
            <<Attr("http-equiv", <<"refresh">>),
              Attr("content", <<"0;", "url=">> \o UrlBad)>>,
            <<Attr("charset", <<"utf-8">>)>>,
            <<Attr("http-equiv", <<"set-cookie">>), Attr("content", <<"c">>)>>,
            <<Attr("name", <<"n">>), Attr("content", <<"c">>)>>}
      [] tag = "form" ->
           {<<>>, <<Attr("action", <<"/", "y">>)>>, <<Attr("action", UrlBad)>>,
            <<Attr("action", <<"HTTP", "sp", ":", "/", "/", "g", "/">>),
              Attr("method", <<"post">>)>>}
      [] OTHER -> {<<>>}

SafeTags == {"a", "base", "noscript", "link", "meta", "style", "head", "form", "body"}

UnsafeTags == {"script", "svg"}

\* the tokens of a text that is read again as a document (no text in them)
SubDocs ==
    {<<Tok("StartTag", "script", <<>>)>>,
     <<Tok("StartTag", "a", <<Attr("href", UrlRel)>>), Tok("EndTag", "a", <<>>)>>,
     <<Tok("StartTag", "base", <<Attr("href", <<"http", ":", "/", "/", "g", "/">>)>>),
       Tok("EndTag", "body", <<>>)>>}

TextTokens ==
    {TextTok("t", <<CssLit(<<"t">>)>>, <<TextTok("t", <<>>, <<>>)>>)}
    \cup {TextTok("css", c, <<TextTok("css", <<>>, <<>>)>>) : c \in CssDocs}
    \cup {TextTok("html", <<CssLit(<<"html">>)>>, d) : d \in SubDocs}

TagTokens ==
    UNION {{Tok("StartTag", tag, al) : al \in AttrLists(tag)} : tag \in SafeTags}
    \cup {Tok("SelfClosingTag", tag, <<>>) : tag \in {"a", "style", "form"}}
    \cup {Tok(ty, tag, <<>>) : ty \in {"StartTag", "SelfClosingTag", "EndTag"},
                               tag \in UnsafeTags}
    \cup {Tok("EndTag", tag, <<>>) : tag \in SafeTags}

OtherTokens ==
    {[Tok("Comment", "", <<>>) EXCEPT !.text = "c"],
     [Tok("Doctype", "", <<>>) EXCEPT !.text = "<!doctype html>"]}

\* tokens read after the tokenizer moved its buffer
RefillNames == {"svg", "a"}

RefillTokens ==
    {[t EXCEPT !.refill = r] :
        t \in {Tok("EndTag", "svg", <<>>), Tok("EndTag", "script", <<>>),
               TextTok("t", <<>>, <<>>)},
        r \in RefillNames}

Tokens == TagTokens \cup TextTokens \cup OtherTokens \cup RefillTokens

MaxTokens == 3

\* the uri arguments of the calls of ProxifyURI and sanitizeAttr
UriInputs ==
    {UrlRel, UrlAbs, UrlJs, UrlBad, UrlFrag, UrlData,
     <<>>,
     <<"java", "script", ":", "x">>,
     <<"sp", "java", "SCRIPT", "sp", ":", "x", "sp">>,
     <<"java", "script", "x">>,
     <<"sp", "DATA", ":", "image", "/", "png", "x">>,
     <<"data", ":", "image", "/", "png", "x", "sp">>,
     <<"data", ":", "image", "/", "jpeg">>,
     <<"data", ":", "image", "/", "svg">>,
     <<"data", ":", "text", "/", "html">>,
     <<"http", ":", "/", "/", "h", "/">>,
     <<"http", ":", "/", "/", "h", "/", "#", "f">>,
     <<"http", ":", "/", "/", "u", "@", "h", "/", "x", "?", "q", "#", "f">>,
     <<"x", "#", "f", "%20", "g">>,
     <<"sp", ".", "/", "x", "sp">>,
     <<"/", "/", "g", "/", "y">>,
     <<"?", "q">>,
     <<"..", "/", "x", "sp", "y">>,
     <<"mailto", ":", "u", "@", "h">>,
     <<"HTTP", ":", "/", "/", "g", "/", "y", "?", "q", "#", "f">>}

\* the attribute names of the calls of sanitizeAttr
AttrNames == {"href", "src", "action", "title", "class", "onclick", "srcset", "data"}

AttrInputs(uri) ==
    {Attr(n, uri) : n \in AttrNames} \cup {StyleAttr(c) : c \in CssDocs}

\* mortyurl parameters
TgtHttp == UrlAbs

TgtQuery == <<"http", ":", "/", "/", "g", "/", "y", "?", "q">>

TgtFtp == <<"ftp", ":", "/", "/", "g", "/", "y">>

TgtOnion == <<"http", ":", "/", "/", "h", ".onion", "/">>

TgtOnionPort == <<"http", ":", "/", "/", "h", ".onion", ":", "80", "/">>

TgtNoScheme == <<"g", "/", "y">>

TgtUpper == <<"HTTP", ":", "/", "/", "g", "/", "y">>

Targets ==
    {TgtHttp, TgtQuery, TgtFtp, TgtOnion, TgtOnionPort, TgtNoScheme, TgtUpper, UrlBad}

\* Location headers
Locations ==
    {NilBytes, Bytes(TgtHttp), Bytes(TgtFtp), Bytes(TgtOnion), Bytes(TgtOnionPort),
     Bytes(<<"/", "y">>), Bytes(UrlFrag), Bytes(UrlBad)}

Proxies == {[Key |-> k, FollowRedirect |-> f] : k \in {NoKey, "k1"}, f \in BOOLEAN}

Arg(k, v) == [k |-> k, v |-> v]

Ctx(path, method, queryArgs, postArgs, disposition) ==
    [path |-> path, method |-> method, queryArgs |-> queryArgs,
     postArgs |-> postArgs, disposition |-> disposition]

UpperHex(s) == [i \in 1..Len(s) |-> HexUpper[IndexOf(HexLower, s[i])]]

ExtraArgs == {<<>>, <<Arg("a", <<"1">>)>>}

\* mortyhash parameters sent along with the mortyurl t and the other args
HashInputs(t, extra) ==
    {hash(t, "k1"), UpperHex(hash(t, "k1")), hash(t, "k2"),
     Take(hash(t, "k1"), 3), Take(hash(t, "k1"), 2), <<"z", "z", "0", "0">>,
     hash(MergeQuery(t, QueryString(extra)), "k1")}

Requests ==
    {Ctx("/", "GET", <<Arg("mortyhash", hv), Arg("mortyurl", t)>> \o extra, <<>>, "nil") :
        <<t, extra, hv>> \in
            UNION {{<<t, extra, hv>> : hv \in HashInputs(t, extra)} :
                      <<t, extra>> \in {TgtHttp, TgtQuery} \X ExtraArgs}}
    \cup {Ctx("/", m, <<Arg("mortyhash", hash(t, "k1")), Arg("mortyurl", t)>>, <<>>, "nil") :
            t \in Targets, m \in {"GET", "POST"}}
    \cup {Ctx("/", "GET", <<Arg("mortyurl", t)>>, <<>>, d) :
            t \in Targets, d \in {"nil", "filename"}}
    \cup {Ctx("/", "POST", <<>>,
              <<Arg("mortyurl", TgtHttp), Arg("mortyhash", hash(TgtHttp, "k1"))>>, "other"),
          Ctx("/", "POST", <<Arg("mortyurl", TgtQuery)>>,
              <<Arg("mortyurl", TgtHttp), Arg("mortyhash", hash(TgtHttp, "k1"))>>, "nil"),
          Ctx("/", "POST", <<Arg("a", <<"1">>)>>,
              <<Arg("mortyurl", TgtQuery), Arg("mortyhash", hash(TgtQuery, "k1"))>>, "nil"),
          Ctx("/", "GET",
              <<Arg("mortyurl", TgtHttp), Arg("a", <<"1">>), Arg("mortyurl", TgtQuery),
                Arg("mortyhash", hash(TgtHttp, "k1"))>>, <<>>, "nil"),
          Ctx("/", "GET", <<Arg("mortyurl", <<>>)>>, <<>>, "nil"),
          Ctx("/", "GET", <<Arg("a", <<"1">>)>>, <<>>, "nil"),
          Ctx("/robots.txt", "GET", <<Arg("mortyurl", TgtHttp)>>, <<>>, "nil"),
          Ctx("/favicon.ico", "GET", <<>>, <<>>, "nil")}

Header(media, params) == [nil |-> FALSE, media |-> media, params |-> params]

Param(name, value) == [name |-> name, value |-> value]

\* Content-Type headers of upstream responses
ContentTypeHeaders ==
    {[nil |-> TRUE, media |-> <<>>, params |-> <<>>],
     Header(<<"text", "/", "html">>, <<>>),
     Header(<<"TEXT", "/", "html">>, <<Param("charset", "latin1")>>),
     Header(<<"application", "/", "xhtml", "+", "xml">>, <<>>),
     Header(<<"application", "/", "xhtml">>, <<>>),
     Header(<<"text", "/", "css">>, <<>>),
     Header(<<"text", "/", "css">>, <<Param("CHARSET", "x"), Param("foo", "bar")>>),
     Header(<<"text", "/", "css", "+", "xml">>, <<>>),
     Header(<<"text", "/", "html", "+", "xml">>, <<>>),
     Header(<<"image", "/", "png">>, <<>>),
     Header(<<"image", "/", "png">>, <<Param("foo", "bar")>>),
     Header(<<"image", "/", "svg", "+", "xml">>, <<>>),
     Header(<<"text", "/", "plain">>, <<>>),
     Header(<<"application", "/", "json">>, <<Param("charset", "utf-8")>>),
     Header(<<"text", "/", "javascript">>, <<Param("charset", "utf-8")>>),
     Header(<<"text">>, <<>>),
     Header(<<"text", "/">>, <<>>),
     Header(<<"text", "/", "html">>, <<Param("", "")>>),
     Header(<<"text", "/", "html">>, <<Param("a", "1"), Param("a", "2")>>)}

\* the body of an upstream response, as tokens and as a style sheet
UpstreamBody ==
    [html |-> <<Tok("StartTag", "a", <<Attr("href", UrlRel)>>)>>,
     css |-> <<CssLit(<<"url(">>), CssUrl(UrlAbs), CssLit(<<")">>)>>]

Upstream(err, status, loc, ctype, decode) ==
    [err |-> err, status |-> status, loc |-> loc, ctype |-> ctype,
     decode |-> decode, body |-> UpstreamBody]

NoHeader == [nil |-> TRUE, media |-> <<>>, params |-> <<>>]

NoUpstream == Upstream("none", 0, NilBytes, NoHeader, "nop")

Responses ==
    {Upstream("timeout", 0, NilBytes, NoHeader, "nop"),
     Upstream("other", 0, NilBytes, NoHeader, "nop"),
     Upstream("", 404, NilBytes, NoHeader, "nop")}
    \cup {Upstream("", 302, loc, NoHeader, "nop") : loc \in Locations}
    \cup {Upstream("", 303, Bytes(<<"/", "y">>), NoHeader, "nop")}
    \cup {Upstream("", 200, NilBytes, h, d) :
            h \in ContentTypeHeaders, d \in {"nop", "ok", "fail"}}

VARIABLES
    \* one run of sanitizeHTML, token by token
    unsafeElements,   \* the stack of open unsafe elements
    state,            \* StateDefault, StateInStyle or StateInNoscript
    rc,               \* the RequestConfig: Key, BaseURL, BodyInjected
    emitted,          \* the chunks written while the last token was processed
    lastType,         \* the type of the last token read
    lastTag,          \* its tag name
    lastTok,          \* the last token read
    depthBefore,      \* the length of the stack when the last token was read
    ntok,             \* the number of tokens read
    hpc,              \* "tokens" while the loop runs, "eof" after it, "done"
    \* one call of ProxifyURI or of sanitizeAttr
    pxUri,            \* the uri argument
    pxRc,             \* the receiver
    pxAttr,           \* the attribute of a sanitizeAttr call
    pxRes,            \* what ProxifyURI returned: [err, uri]
    pxOut,            \* what sanitizeAttr wrote
    pxPc,             \* "new", then "ProxifyURI" or "sanitizeAttr"
    \* one request
    rqProxy,          \* the Proxy: Key, FollowRedirect
    rqCtx,            \* the request, after popRequestParam
    rqHash,           \* requestHash as received
    rqURI,            \* requestURI as received
    rqTarget,         \* requestURIStr of the upstream request being sent
    rqCount,          \* redirectCount
    rqFetches,        \* how many upstream requests have been sent
    rqResp,           \* the upstream response handled last
    rqAnswer,         \* what has been answered to the client
    rqPc,             \* "start", "fetching" (in CLIENT.DoTimeout), "done"
    \* one call into package contenttype
    ctA,              \* the receiver or the argument contentType
    ctB,              \* the argument other of Equals
    ctArg,            \* the arguments that built the filter, or the map parameters
    ctOut,            \* what the call returned, or the receiver after the call
    ctPc,             \* "new", then the name of the function called
    \* sanitizeURI called on a byte string, and then on what it returned
    suUri,            \* the argument uri
    suRes,            \* what the first call returned: [uri, scheme, mem]
    suAgain,          \* what the call on suRes.uri returned
    suPc,             \* "new", "once", "twice"
    \* one call of sanitizeLinkTag or sanitizeMetaTag
    tgRc,             \* the RequestConfig of the call
    tgAttrs,          \* the attributes of the tag, as the tokenizer yields them
    tgOut,            \* what the call wrote
    tgPc              \* "new", then the name of the function called

htmlVars == <<unsafeElements, state, rc, emitted, lastType, lastTag, lastTok,
              depthBefore, ntok, hpc>>

pxVars == <<pxUri, pxRc, pxAttr, pxRes, pxOut, pxPc>>

rqVars == <<rqProxy, rqCtx, rqHash, rqURI, rqTarget, rqCount, rqFetches, rqResp,
            rqAnswer, rqPc>>

ctVars == <<ctA, ctB, ctArg, ctOut, ctPc>>

suVars == <<suUri, suRes, suAgain, suPc>>

tgVars == <<tgRc, tgAttrs, tgOut, tgPc>>

vars == <<htmlVars, pxVars, rqVars, ctVars, suVars, tgVars>>

\* no run of sanitizeHTML
HtmlIdle ==
    /\ unsafeElements = <<>>
    /\ state = StateDefault
    /\ rc = [Key |-> NoKey, BaseURL |-> EmptyURL, BodyInjected |-> FALSE]
    /\ emitted = <<>>
    /\ lastType = ""
    /\ lastTag = ""
    /\ lastTok = Tok("", "", <<>>)
    /\ depthBefore = 0
    /\ ntok = 0
    /\ hpc = "idle"

\* no call of ProxifyURI or sanitizeAttr
PxIdle ==
    /\ pxUri = <<>>
    /\ pxRc = [Key |-> NoKey, BaseURL |-> EmptyURL, BodyInjected |-> FALSE]
    /\ pxAttr = Attr("", <<>>)
    /\ pxRes = [err |-> FALSE, uri |-> <<>>]
    /\ pxOut = <<>>
    /\ pxPc = "idle"

\* no request
RqIdle ==
    /\ rqProxy = [Key |-> NoKey, FollowRedirect |-> FALSE]
    /\ rqCtx = Ctx("", "", <<>>, <<>>, "nil")
    /\ rqHash = NilBytes
    /\ rqURI = NilBytes
    /\ rqTarget = <<>>
    /\ rqCount = 0
    /\ rqFetches = 0
    /\ rqResp = NoUpstream
    /\ rqAnswer = NoResponse
    /\ rqPc = "idle"

\* no call into package contenttype
CtIdle ==
    /\ ctA = CType(<<>>, <<>>, <<>>, NoParameters)
    /\ ctB = CType(<<>>, <<>>, <<>>, NoParameters)
    /\ ctArg = <<>>
    /\ ctOut = FALSE
    /\ ctPc = "idle"

\* no call of sanitizeURI on its own
SuIdle ==
    /\ suUri = <<>>
    /\ suRes = sanitizeURI(<<>>)
    /\ suAgain = sanitizeURI(<<>>)
    /\ suPc = "idle"

\* no call of sanitizeLinkTag or sanitizeMetaTag
TgIdle ==
    /\ tgRc = [Key |-> NoKey, BaseURL |-> EmptyURL, BodyInjected |-> FALSE]
    /\ tgAttrs = <<>>
    /\ tgOut = <<>>
    /\ tgPc = "idle"

(***************************************************************************)
(* SpecHTML: sanitizeHTML(rc, ctx, responseBody) as ProcessUri calls it,   *)
(* one token per step, followed by lines 488-499 of ProcessUri.            *)
(***************************************************************************)
InitHTML ==
    /\ unsafeElements = <<>>
    /\ state = StateDefault
    /\ rc \in RequestConfigs
    /\ emitted = <<>>
    /\ lastType = ""
    /\ lastTag = ""
    /\ lastTok = Tok("", "", <<>>)
    /\ depthBefore = 0
    /\ ntok = 0
    /\ hpc = "tokens"
    /\ PxIdle
    /\ RqIdle
    /\ CtIdle
    /\ SuIdle
    /\ TgIdle

\* decoder.Next() yields tok; the body of the loop runs
NextToken(tok) ==
    /\ hpc = "tokens"
    /\ ntok < MaxTokens
    /\ \E st \in {sanitizeToken([unsafeElements |-> unsafeElements, state |-> state,
                                 rc |-> rc, out |-> <<>>], tok)} :
           /\ unsafeElements' = st.unsafeElements
           /\ state' = st.state
           /\ rc' = st.rc
           /\ emitted' = st.out
    /\ lastType' = tok.type
    /\ lastTag' = tok.tag
    /\ lastTok' = tok
    /\ depthBefore' = Len(unsafeElements)
    /\ ntok' = ntok + 1
    /\ UNCHANGED <<hpc, pxVars, rqVars, ctVars, suVars, tgVars>>

\* decoder.Next() yields html.ErrorToken: the loop ends
EndOfDocument ==
    /\ hpc = "tokens"
    /\ hpc' = "eof"
    /\ emitted' = <<>>
    /\ UNCHANGED <<unsafeElements, state, rc, lastType, lastTag, lastTok,
                   depthBefore, ntok, pxVars, rqVars, ctVars, suVars, tgVars>>

\* AppendBanner without the test of rc.BodyInjected
AppendBannerAlways ==
    /\ hpc = "eof"
    /\ hpc' = "done"
    /\ emitted' = BodyExtension(rc)
    /\ UNCHANGED <<unsafeElements, state, rc, lastType, lastTag, lastTok,
                   depthBefore, ntok, pxVars, rqVars, ctVars, suVars, tgVars>>

\* ProcessUri lines 488-499: the banner when no </body> wrote it
AppendBanner ==
    /\ hpc = "eof"
    /\ hpc' = "done"
    /\ emitted' = IF ~rc.BodyInjected THEN BodyExtension(rc) ELSE <<>>
    /\ UNCHANGED <<unsafeElements, state, rc, lastType, lastTag, lastTok,
                   depthBefore, ntok, pxVars, rqVars, ctVars, suVars, tgVars>>

NextHTML ==
    \/ \E tok \in Tokens : NextToken(tok)
    \/ EndOfDocument
    \/ AppendBanner

SpecHTML == InitHTML /\ [][NextHTML]_vars

(***************************************************************************)
(* SpecURI: one call of rc.ProxifyURI(uri) or of sanitizeAttr(rc, out,     *)
(* name, uri, escaped) for each uri and each RequestConfig.                *)
(***************************************************************************)
InitURI ==
    /\ HtmlIdle
    /\ RqIdle
    /\ CtIdle
    /\ SuIdle
    /\ TgIdle
    /\ pxUri \in UriInputs
    /\ pxRc \in RequestConfigs
    /\ pxAttr = Attr("", <<>>)
    /\ pxRes = [err |-> FALSE, uri |-> <<>>]
    /\ pxOut = <<>>
    /\ pxPc = "new"

CallProxifyURI ==
    /\ pxPc = "new"
    /\ pxRes' = ProxifyURI(pxRc, pxUri)
    /\ pxPc' = "ProxifyURI"
    /\ UNCHANGED <<pxUri, pxRc, pxAttr, pxOut, htmlVars, rqVars, ctVars, suVars, tgVars>>

\* the attribute as sanitizeHTML passes it, lines 640-650
CallSanitizeAttr(attr) ==
    /\ pxPc = "new"
    /\ pxAttr' = attr
    /\ pxOut' = sanitizeAttr(pxRc, "a", WithEscaped(<<attr>>)[1])
    /\ pxPc' = "sanitizeAttr"
    /\ UNCHANGED <<pxUri, pxRc, pxRes, htmlVars, rqVars, ctVars, suVars, tgVars>>

NextURI ==
    \/ CallProxifyURI
    \/ \E attr \in AttrInputs(pxUri) : CallSanitizeAttr(attr)

SpecURI == InitURI /\ [][NextURI]_vars

(***************************************************************************)
(* SpecReq: one request through Proxy.RequestHandler.  A step ends where   *)
(* ProcessUri waits in CLIENT.DoTimeout or where the handler returns.      *)
(***************************************************************************)
InitReq ==
    /\ HtmlIdle
    /\ PxIdle
    /\ CtIdle
    /\ SuIdle
    /\ TgIdle
    /\ rqProxy \in Proxies
    /\ rqCtx = Ctx("", "", <<>>, <<>>, "nil")
    /\ rqHash = NilBytes
    /\ rqURI = NilBytes
    /\ rqTarget = <<>>
    /\ rqCount = 0
    /\ rqFetches = 0
    /\ rqResp = NoUpstream
    /\ rqAnswer = NoResponse
    /\ rqPc = "start"

\* ProcessUri(ctx, requestURIStr, redirectCount) up to CLIENT.DoTimeout
ProcessUri(requestURIStr, redirectCount) ==
    \E b \in {BeforeFetch(requestURIStr)} :
        /\ rqTarget' = b.target
        /\ rqCount' = redirectCount
        /\ rqFetches' = IF b.fetch THEN rqFetches + 1 ELSE rqFetches
        /\ rqAnswer' = Respond(rqAnswer, b.response)
        /\ rqPc' = IF b.fetch THEN "fetching" ELSE "done"

\* RequestHandler(ctx) up to CLIENT.DoTimeout or to its return
RequestHandler(ctx) ==
    /\ rqPc = "start"
    /\ \E h \in {popRequestParam(ctx, "mortyhash")} :
       \E u \in {popRequestParam(h.ctx, "mortyurl")} :
          IF appRequestHandler(ctx).handled
          THEN /\ rqAnswer' = Respond(rqAnswer, appRequestHandler(ctx).response)
               /\ rqPc' = "done"
               /\ rqCtx' = ctx
               /\ UNCHANGED <<rqHash, rqURI, rqTarget, rqCount, rqFetches>>
          ELSE /\ rqCtx' = u.ctx
               /\ rqHash' = h.param
               /\ rqURI' = u.param
               /\ IF u.param.nil
                  THEN /\ rqAnswer' = Respond(rqAnswer, serveMainPage(200))
                       /\ rqPc' = "done"
                       /\ UNCHANGED <<rqTarget, rqCount, rqFetches>>
                  ELSE IF rqProxy.Key # NoKey
                          /\ ~verifyRequestURI(u.param.b, h.param.b, rqProxy.Key)
                  THEN /\ rqAnswer' = Respond(rqAnswer, serveMainPage(403))
                       /\ rqPc' = "done"
                       /\ UNCHANGED <<rqTarget, rqCount, rqFetches>>
                  ELSE ProcessUri(MergeQuery(u.param.b, QueryString(u.ctx.queryArgs)), 0)
    /\ UNCHANGED <<rqProxy, rqResp, htmlVars, pxVars, ctVars, suVars, tgVars>>

\* UpstreamReply following one redirect more: redirectCount <= MaxRedirectCount
UpstreamReplyOneMore(resp) ==
    /\ rqPc = "fetching"
    /\ rqResp' = resp
    /\ IF Follows(rqProxy, rqCtx, resp)
       THEN IF rqCount <= MaxRedirectCount
            THEN ProcessUri(resp.loc.b, rqCount + 1)
            ELSE /\ rqAnswer' = Respond(rqAnswer, serveMainPage(310))
                 /\ rqPc' = "done"
                 /\ UNCHANGED <<rqTarget, rqCount, rqFetches>>
       ELSE /\ rqAnswer' = Respond(rqAnswer,
                                    AfterFetch(rqProxy, rqCtx, Parse(rqTarget).url, resp))
            /\ rqPc' = "done"
            /\ UNCHANGED <<rqTarget, rqCount, rqFetches>>
    /\ UNCHANGED <<rqProxy, rqCtx, rqHash, rqURI, htmlVars, pxVars, ctVars, suVars, tgVars>>

\* CLIENT.DoTimeout returns resp; ProcessUri runs on to the next
\* CLIENT.DoTimeout or to its return
UpstreamReply(resp) ==
    /\ rqPc = "fetching"
    /\ rqResp' = resp
    /\ IF Follows(rqProxy, rqCtx, resp)
       THEN IF rqCount < MaxRedirectCount
            THEN ProcessUri(resp.loc.b, rqCount + 1)
            ELSE /\ rqAnswer' = Respond(rqAnswer, serveMainPage(310))
                 /\ rqPc' = "done"
                 /\ UNCHANGED <<rqTarget, rqCount, rqFetches>>
       ELSE /\ rqAnswer' = Respond(rqAnswer,
                                    AfterFetch(rqProxy, rqCtx, Parse(rqTarget).url, resp))
            /\ rqPc' = "done"
            /\ UNCHANGED <<rqTarget, rqCount, rqFetches>>
    /\ UNCHANGED <<rqProxy, rqCtx, rqHash, rqURI, htmlVars, pxVars, ctVars, suVars, tgVars>>

\* the requests that appRequestHandler serves, and the others
AppRequests == {ctx \in Requests : appRequestHandler(ctx).handled}

ProxyRequests == Requests \ AppRequests

\* CLIENT.DoTimeout returns an error, or a response
UpstreamErrors == {resp \in Responses : resp.err # ""}

UpstreamResponses == Responses \ UpstreamErrors

NextReq ==
    \/ \E ctx \in AppRequests : RequestHandler(ctx)
    \/ \E ctx \in ProxyRequests : RequestHandler(ctx)
    \/ \E resp \in UpstreamErrors : UpstreamReply(resp)
    \/ \E resp \in UpstreamResponses : UpstreamReply(resp)

SpecReq == InitReq /\ [][NextReq]_vars

\* SpecReq with the steps that the program does take: the handler runs, and
\* CLIENT.DoTimeout returns, with a response or with ErrTimeout
SpecReqFair == SpecReq /\ WF_vars(NextReq)

(***************************************************************************)
(* SpecCT: one call of a function of package contenttype, on content types *)
(* as ParseContentType returns them: lower-case type, subtype and suffix,  *)
(* and a parameter map whose values may be empty (text/html; a="").        *)
(***************************************************************************)
CtNames == {"a", "charset", "CHARSET"}

CtValues == {"", "v"}

CtParameters == UNION {[d -> CtValues] : d \in SUBSET CtNames}

ContentTypes ==
    {CType(top, sub, suffix, params) :
        top \in {<<"text">>, <<"application">>}, sub \in {<<"html">>, <<"xhtml">>},
        suffix \in {<<>>, <<"xml">>}, params \in CtParameters}

\* the arguments of NewFilterEquals
FilterArgs ==
    {<<"text">>, <<"application">>, <<"*">>} \X {<<"html">>, <<"xhtml">>, <<"*">>}
        \X {<<>>, <<"xml">>, <<"*">>}

\* the lists given to NewFilterOr, each member a NewFilterEquals filter
FilterLists ==
    LET Members == {<< <<"text">>, <<"html">>, <<>> >>,
                    << <<"application">>, <<"xhtml">>, <<"xml">> >>,
                    << <<"*">>, <<"xhtml">>, <<"*">> >>,
                    << <<"text">>, <<"*">>, <<"xml">> >>}
    IN  {<<>>} \cup {<<m>> : m \in Members} \cup {<<m, n>> : m, n \in Members}

\* the maps given to FilterParameters
AllowedMaps == UNION {[d -> BOOLEAN] : d \in SUBSET CtNames}

InitCT ==
    /\ HtmlIdle
    /\ PxIdle
    /\ RqIdle
    /\ SuIdle
    /\ TgIdle
    /\ ctA \in ContentTypes
    /\ ctB = CType(<<>>, <<>>, <<>>, NoParameters)
    /\ ctArg = <<>>
    /\ ctOut = FALSE
    /\ ctPc = "new"

\* ctA.Equals(other)
CallEquals(other) ==
    /\ ctPc = "new"
    /\ ctB' = other
    /\ ctOut' = Equals(ctA, other)
    /\ ctPc' = "Equals"
    /\ UNCHANGED <<ctA, ctArg, htmlVars, pxVars, rqVars, suVars, tgVars>>

\* ParseContentType(ctA.String()): ctArg is the string, ctOut is [err, ct]
CallString ==
    /\ ctPc = "new"
    /\ ctArg' = ContentTypeString(ctA)
    /\ ctOut' = ParseContentType(ContentTypeString(ctA))
    /\ ctPc' = "String"
    /\ UNCHANGED <<ctA, ctB, htmlVars, pxVars, rqVars, suVars, tgVars>>

\* NewFilterEquals(args[1], args[2], args[3])(ctA)
CallFilterEquals(args) ==
    /\ ctPc = "new"
    /\ ctArg' = args
    /\ ctOut' = NewFilterEquals(args[1], args[2], args[3], ctA)
    /\ ctPc' = "NewFilterEquals"
    /\ UNCHANGED <<ctA, ctB, htmlVars, pxVars, rqVars, suVars, tgVars>>

\* NewFilterOr(contentTypeFilterList)(ctA)
CallFilterOr(contentTypeFilterList) ==
    /\ ctPc = "new"
    /\ ctArg' = contentTypeFilterList
    /\ ctOut' = NewFilterOr(contentTypeFilterList, ctA)
    /\ ctPc' = "NewFilterOr"
    /\ UNCHANGED <<ctA, ctB, htmlVars, pxVars, rqVars, suVars, tgVars>>

\* ctA.FilterParameters(parameters): ctOut is the receiver after the call
CallFilterParameters(parameters) ==
    /\ ctPc = "new"
    /\ ctArg' = parameters
    /\ ctOut' = FilterParameters(ctA, parameters)
    /\ ctPc' = "FilterParameters"
    /\ UNCHANGED <<ctA, ctB, htmlVars, pxVars, rqVars, suVars, tgVars>>

NextCT ==
    \/ \E other \in ContentTypes : CallEquals(other)
    \/ CallString
    \/ \E args \in FilterArgs : CallFilterEquals(args)
    \/ \E contentTypeFilterList \in FilterLists : CallFilterOr(contentTypeFilterList)
    \/ \E parameters \in AllowedMaps : CallFilterParameters(parameters)

SpecCT == InitCT /\ [][NextCT]_vars

(***************************************************************************)
(* SpecSU: sanitizeURI called on a byte string and then on the slice that  *)
(* it returned.                                                            *)
(***************************************************************************)
MaxURILen == 4

URIBytes == {"sp", "HTTP", "x", ":", "/", "#"}

URIStrings == UNION {[1..n -> URIBytes] : n \in 0..MaxURILen}

InitSU ==
    /\ HtmlIdle
    /\ PxIdle
    /\ RqIdle
    /\ CtIdle
    /\ TgIdle
    /\ suUri \in URIStrings
    /\ suRes = sanitizeURI(<<>>)
    /\ suAgain = sanitizeURI(<<>>)
    /\ suPc = "new"

\* sanitizeURI(suUri)
CallSanitizeURI ==
    /\ suPc = "new"
    /\ suRes' = sanitizeURI(suUri)
    /\ suPc' = "once"
    /\ UNCHANGED <<suUri, suAgain, htmlVars, pxVars, rqVars, ctVars, tgVars>>

\* sanitizeURI on the slice that the first call returned
CallSanitizeURIAgain ==
    /\ suPc = "once"
    /\ suAgain' = sanitizeURI(suRes.uri)
    /\ suPc' = "twice"
    /\ UNCHANGED <<suUri, suRes, htmlVars, pxVars, rqVars, ctVars, tgVars>>

NextSU ==
    \/ CallSanitizeURI
    \/ CallSanitizeURIAgain

SpecSU == InitSU /\ [][NextSU]_vars

(***************************************************************************)
(* SpecTag: one call of sanitizeLinkTag(rc, out, attrs) or of              *)
(* sanitizeMetaTag(rc, out, attrs) on the attributes of a tag.             *)
(***************************************************************************)
\* a refresh target that has no scheme
UrlHost == <<"/", "/", "g", "/", "x">>

LinkAttrLists ==
    {<<Attr("rel", <<"stylesheet">>), Attr("href", UrlRel)>>,
     <<Attr("rel", <<"preload">>), Attr("href", UrlRel)>>,
     <<Attr("as", <<"script">>), Attr("href", UrlRel)>>,
     <<Attr("href", UrlRel)>>,
     <<Attr("rel", <<"shortcut icon">>), Attr("as", <<"script">>)>>,
     <<Attr("rel", <<"icon">>), Attr("href", UrlJs), Attr("onload", <<"alert">>)>>,
     <<Attr("rel", <<"stylesheet">>), Attr("rel", <<"preload">>)>>,
     <<Attr("as", <<"style">>), Attr("rel", <<"Stylesheet">>)>>,
     <<Attr("rel", <<"alternate">>), Attr("href", UrlBad)>>}

MetaAttrLists ==
    {<<Attr("http-equiv", <<"Refresh">>),
       Attr("content", <<"0;", "URL=", "'">> \o UrlAbs \o <<"'">>)>>,
     <<Attr("http-equiv", <<"refresh">>), Attr("content", <<"0;", "url=">> \o UrlBad)>>,
     <<Attr("content", <<"0;", "url=">> \o UrlRel), Attr("http-equiv", <<"refresh">>)>>,
     <<Attr("http-equiv", <<"refresh">>), Attr("content", <<"0;", "url=", "'">> \o UrlRel)>>,
     <<Attr("http-equiv", <<"refresh">>), Attr("content", <<"0;">>)>>,
     <<Attr("charset", <<"utf-8">>)>>,
     <<Attr("http-equiv", <<"refresh">>), Attr("content", <<"0;", "url=">> \o UrlAbs),
       Attr("charset", <<"utf-8">>)>>,
     <<Attr("charset", <<"utf-8">>), Attr("http-equiv", <<"refresh">>),
       Attr("content", <<"0;", "url=">> \o UrlAbs)>>,
     <<Attr("http-equiv", <<"set-cookie">>), Attr("content", <<"c">>)>>,
     <<Attr("content", <<"c">>), Attr("http-equiv", <<"set-cookie">>)>>,
     <<Attr("http-equiv", <<"refresh">>), Attr("http-equiv", <<"set-cookie">>)>>,
     <<Attr("http-equiv", <<"Date">>), Attr("content", <<"c">>)>>,
     <<Attr("http-equiv", <<"content-language">>),
       Attr("content", <<"0;", "url=">> \o UrlAbs)>>,
     <<Attr("name", <<"n">>), Attr("content", <<"c">>)>>,
     <<Attr("http-equiv", <<"refresh">>),
       Attr("content", <<"xFF", "xFF", "0;", "url=">> \o UrlHost)>>,
     <<Attr("http-equiv", <<"refresh">>),
       Attr("content", <<"xFF", "xFF", "xFF", "xFF", "xFF", "xFF", "xFF", "0;", "url=">>
                        \o UrlAbs \o <<"HTTP", "x">>)>>}

InitTag ==
    /\ HtmlIdle
    /\ PxIdle
    /\ RqIdle
    /\ CtIdle
    /\ SuIdle
    /\ tgRc \in RequestConfigs
    /\ tgAttrs \in LinkAttrLists \cup MetaAttrLists
    /\ tgOut = <<>>
    /\ tgPc = "new"

\* sanitizeLinkTag(rc, out, attrs), the attributes as lines 640-650 pass them
CallSanitizeLinkTag ==
    /\ tgPc = "new"
    /\ tgOut' = sanitizeLinkTag(tgRc, WithEscaped(tgAttrs))
    /\ tgPc' = "sanitizeLinkTag"
    /\ UNCHANGED <<tgRc, tgAttrs, htmlVars, pxVars, rqVars, ctVars, suVars>>

\* sanitizeMetaTag(rc, out, attrs)
CallSanitizeMetaTag ==
    /\ tgPc = "new"
    /\ tgOut' = sanitizeMetaTag(tgRc, WithEscaped(tgAttrs))
    /\ tgPc' = "sanitizeMetaTag"
    /\ UNCHANGED <<tgRc, tgAttrs, htmlVars, pxVars, rqVars, ctVars, suVars>>

NextTag ==
    \/ CallSanitizeLinkTag
    \/ CallSanitizeMetaTag

SpecTag == InitTag /\ [][NextTag]_vars

(***************************************************************************)
(* Properties of sanitizeHTML, checked under SpecHTML.                     *)
(***************************************************************************)
UnsafeTagNames == {UnsafeElements[i] : i \in 1..Len(UnsafeElements)}

\* C1: while the stack of open unsafe elements is non-empty, no byte is
\* written: the token that pushes an unsafe start tag, every token read with
\* a non-empty stack and the end tag that empties it write nothing, and
\* every chunk written was written by a sanitizeHTML whose stack was empty.
C1_NoOutputWhileUnsafe ==
    hpc = "tokens" /\ ntok > 0 =>
        /\ depthBefore > 0 => emitted = <<>>
        /\ Len(unsafeElements) > 0 => emitted = <<>>
        /\ \A i \in 1..Len(emitted) : emitted[i].depth = 0

\* C1 happens: an end tag read with an unsafe element open closes it, and
\* nothing has been written
C1_Witness ==
    /\ hpc = "tokens"
    /\ depthBefore > 0
    /\ lastType = "EndTag"
    /\ lastTag \in UnsafeTagNames
    /\ unsafeElements = <<>>
    /\ emitted = <<>>

\* C2: every byte written is from the templates or from a token whose tag
\* is not in UnsafeElements and that was read with no unsafe element open,
\* for start tags, self-closing tags and end tags alike.
C2_OnlySafeTokensWritten ==
    hpc = "tokens" =>
        \A i \in 1..Len(emitted) :
            emitted[i].kind # "template" =>
                /\ emitted[i].tag \notin UnsafeTagNames
                /\ emitted[i].depth = 0
                /\ depthBefore = 0

\* the forms C3 allows, and the keyed form of ProxifyURI and the empty
\* string with them; v is a URL as written, HTML-escaped in a style attribute
AllowedURLForm(v) ==
    \/ v = <<>>
    \/ HasPrefix(v, <<"./?mortyurl=">>)
    \/ /\ HasPrefix(v, <<"./?mortyhash=">>)
       /\ (Contains(v, "&mortyurl=") \/ Contains(v, "&amp;mortyurl="))
    \/ v[1] = "#"
    \/ \E pre \in DataImagePrefixes : HasPrefix(v, pre)

\* the URLs in a chunk: the value of href, src, action, of a meta refresh,
\* and what stands inside each url(...) of a style sheet
WrittenURLs(chunk) ==
    (IF chunk.kind \in {"urlattr", "refresh"} THEN {chunk.val} ELSE {})
    \cup {chunk.css[k].val : k \in {j \in 1..Len(chunk.css) :
                                      chunk.css[j].kind \in {"uri", "rawurl"}}}

\* C3: every URL written in href, src, action, a CSS url(...) or a meta
\* refresh is a proxified URL, a fragment or an allowed data: image, with
\* and without a key, also where ProxifyURI fails.
C3_EveryURLProxified ==
    \A i \in 1..Len(emitted) : \A v \in WrittenURLs(emitted[i]) : AllowedURLForm(v)

(***************************************************************************)
(* Properties of RequestHandler and ProcessUri, checked under SpecReq.     *)
(***************************************************************************)
\* the request carried a mortyhash that is the hex HMAC of mortyurl as received
HashIsValid ==
    /\ ~rqURI.nil
    /\ ~HexDecode(rqHash.b).err
    /\ HexDecode(rqHash.b).bytes = MacSum(rqURI.b, rqProxy.Key)

\* C4: with a key, an upstream request is sent only when mortyhash is the
\* hex HMAC of the mortyurl bytes as received, before the query is merged;
\* a request with a mortyurl and a missing, malformed or wrong mortyhash is
\* answered with the main page and status 403, and nothing is fetched.
C4_VerifiedBeforeFetch ==
    rqProxy.Key # NoKey =>
        /\ rqFetches > 0 => HashIsValid
        /\ (rqPc # "start" /\ ~rqURI.nil /\ ~HashIsValid) =>
              /\ rqPc = "done"
              /\ rqFetches = 0
              /\ rqAnswer.page = "main"
              /\ rqAnswer.status = 403
              /\ rqAnswer.body.chunks = <<>>

\* C4 happens: a keyed proxy fetches a target onto which other query
\* parameters were merged, the hash being that of mortyurl alone
C4_Witness ==
    /\ rqProxy.Key # NoKey
    /\ rqPc = "fetching"
    /\ rqCtx.queryArgs # <<>>
    /\ rqTarget # rqURI.b
    /\ HashIsValid

\* the upstream response handled last has status 200 and a Content-Type
\* that parses
Parsed200 ==
    /\ rqPc = "done"
    /\ rqFetches > 0
    /\ rqResp.err = ""
    /\ rqResp.status = 200
    /\ ~rqResp.ctype.nil
    /\ ~ParseContentType(rqResp.ctype).err

\* top-level type, subtype and suffix of that Content-Type
UpstreamType ==
    <<ParseContentType(rqResp.ctype).ct.TopLevelType,
      ParseContentType(rqResp.ctype).ct.SubType,
      ParseContentType(rqResp.ctype).ct.Suffix>>

UpstreamPermitted ==
    \/ AllowedContentTypeFilter(ParseContentType(rqResp.ctype).ct)
    \/ AllowedContentTypeAttachmentFilter(ParseContentType(rqResp.ctype).ct)

HtmlTypes ==
    {<<(<<"text">>), (<<"html">>), (<<>>)>>,
     <<(<<"application">>), (<<"xhtml">>), (<<"xml">>)>>}

CssTypes == {<<(<<"text">>), (<<"css">>), (<<>>)>>}

\* the body could not be converted to UTF-8: status 503, nothing written
DecodeFailed ==
    /\ rqResp.decode = "fail"
    /\ rqAnswer.status = 503
    /\ rqAnswer.body.route = "none"
    /\ rqAnswer.body.chunks = <<>>

C6_ForbiddenType ==
    Parsed200 =>
        /\ ~UpstreamPermitted =>
              /\ rqAnswer.status = 403
              /\ rqAnswer.page = "main"
              /\ rqAnswer.body.route = "none"
              /\ rqAnswer.body.chunks = <<>>
        /\ AllowedContentTypeFilter(ParseContentType(rqResp.ctype).ct)
             = AllowedContentTypeFilter(
                 [ParseContentType(rqResp.ctype).ct EXCEPT !.Parameters = NoParameters])
        /\ AllowedContentTypeAttachmentFilter(ParseContentType(rqResp.ctype).ct)
             = AllowedContentTypeAttachmentFilter(
                 [ParseContentType(rqResp.ctype).ct EXCEPT !.Parameters = NoParameters])
        /\ (rqAnswer.status = 403 /\ rqAnswer.page = "main") <=> ~UpstreamPermitted

\* C6 happens: text/javascript; charset=utf-8 has been refused
C6_Witness ==
    /\ Parsed200
    /\ UpstreamType = <<(<<"text">>), (<<"javascript">>), (<<>>)>>
    /\ DOMAIN ParseContentType(rqResp.ctype).ct.Parameters # {}
    /\ rqAnswer.status = 403
    /\ rqAnswer.body.chunks = <<>>

\* the host of a URL without its port
Hostname(host) ==
    IF Contains(host, ":") THEN Take(host, LastIndexOf(host, ":") - 1) ELSE host

\* C7: no upstream request goes to a target whose scheme is neither http
\* nor https or whose host ends with .onion, for the target of the client
\* and for every redirect followed.
C7_NoForbiddenTarget ==
    rqPc = "fetching" =>
        /\ Parse(rqTarget).url.Scheme \in {<<"http">>, <<"https">>}
        /\ ~HasSuffix(Hostname(Parse(rqTarget).url.Host), <<".onion">>)

(***************************************************************************)
(* Properties of ProxifyURI and sanitizeAttr, checked under SpecURI.       *)
(***************************************************************************)
SafeAttributeNames == {SafeAttributes[i] : i \in 1..Len(SafeAttributes)}

\* C8: sanitizeAttr writes nothing for an attribute that is neither in
\* SafeAttributes nor src, href, action or style; an attribute in
\* SafeAttributes is written as name="escaped value"; src, href and action
\* are written with what ProxifyURI returns, and not at all when it fails.
C8_SanitizeAttr ==
    pxPc = "sanitizeAttr" =>
        /\ pxAttr.name \notin SafeAttributeNames \cup {"src", "href", "action", "style"}
              => pxOut = <<>>
        /\ pxAttr.name \in SafeAttributeNames
              => pxOut = <<[kind |-> "attr", tag |-> "a", name |-> pxAttr.name,
                            val |-> EscapeString(pxAttr.value), css |-> <<>>,
                            depth |-> 0]>>
        /\ pxAttr.name \in {"src", "href", "action"}
              => IF ProxifyURI(pxRc, pxAttr.value).err THEN pxOut = <<>>
                 ELSE pxOut = <<[kind |-> "urlattr", tag |-> "a", name |-> pxAttr.name,
                                 val |-> ProxifyURI(pxRc, pxAttr.value).uri,
                                 css |-> <<>>, depth |-> 0]>>

\* C8 happens: an event handler attribute has been dropped
C8_Witness ==
    /\ pxPc = "sanitizeAttr"
    /\ pxAttr.name = "onclick"
    /\ pxAttr.value # <<>>
    /\ pxOut = <<>>

IsJavascript(uri) == sanitizeURI(uri).scheme = <<"java", "script", ":">>

IsData(uri) == sanitizeURI(uri).scheme = <<"data", ":">>

HasImagePrefix(uri) ==
    \E pre \in DataImagePrefixes : HasPrefix(sanitizeURI(uri).uri, pre)

Nothing == [err |-> FALSE, uri |-> <<>>]

\* C9 as stated: ProxifyURI returns the empty string without error for a
\* javascript: URI and for a data: URI without an allowed prefix, and
\* returns a data: URI with an allowed prefix unchanged.
C9_DataReturnedUnchanged ==
    pxPc = "ProxifyURI" =>
        /\ IsJavascript(pxUri) => pxRes = Nothing
        /\ (IsData(pxUri) /\ ~HasImagePrefix(pxUri)) => pxRes = Nothing
        /\ (IsData(pxUri) /\ HasImagePrefix(pxUri)) =>
              pxRes = [err |-> FALSE, uri |-> pxUri]

\* C9 amended: ProxifyURI returns the empty string without error for a
\* javascript: URI and for a data: URI without an allowed prefix, and
\* returns a data: URI with an allowed prefix as sanitizeURI left it: bytes
\* <= 0x20 removed before and inside the scheme and at the end, the scheme in
\* lower case.
C9_DataReturnedSanitized ==
    pxPc = "ProxifyURI" =>
        /\ IsJavascript(pxUri) => pxRes = Nothing
        /\ (IsData(pxUri) /\ ~HasImagePrefix(pxUri)) => pxRes = Nothing
        /\ (IsData(pxUri) /\ HasImagePrefix(pxUri)) =>
              /\ pxRes = [err |-> FALSE, uri |-> sanitizeURI(pxUri).uri]
              /\ \E pre \in DataImagePrefixes : HasPrefix(pxRes.uri, pre)
              /\ pxRes.uri[Len(pxRes.uri)] \notin Ws

\* C9 happens: an allowed data: URI came back, and not as it went in
C9_Witness ==
    /\ pxPc = "ProxifyURI"
    /\ IsData(pxUri)
    /\ HasImagePrefix(pxUri)
    /\ pxRes.uri # pxUri
    /\ pxRes.uri # <<>>

\* the URI of C10: parsed, without its fragment, resolved against the
\* document URL
ResolvedURL ==
    ResolveReference(pxRc.BaseURL,
                     [Parse(sanitizeURI(pxUri).uri).url EXCEPT !.Fragment = <<>>])

FragmentPart ==
    IF Parse(sanitizeURI(pxUri).uri).url.Fragment # <<>>
    THEN <<"#">> \o Parse(sanitizeURI(pxUri).uri).url.Fragment
    ELSE <<>>

IsProxified(v) ==
    HasPrefix(v, <<"./?mortyurl=">>) \/ HasPrefix(v, <<"./?mortyhash=">>)

\* what follows mortyurl= in a proxified URL as written (HTML-escaped in a
\* style attribute): the escaped U and the fragment
EscapedMortyURL(v) ==
    IF HasPrefix(v, <<"./?mortyurl=">>) THEN Drop(v, 1)
    ELSE IF Contains(v, "&mortyurl=") THEN Drop(v, IndexOf(v, "&mortyurl="))
    ELSE IF Contains(v, "&amp;mortyurl=") THEN Drop(v, IndexOf(v, "&amp;mortyurl="))
    ELSE <<>>

\* e is the query-escaped form of scheme://authority...
EscapedAbsolute(e) ==
    /\ Len(e) >= 5
    /\ e[1] \notin {"%3A", "%2F", "%3F", "%23", "%40"}
    /\ e[2] = "%3A"
    /\ e[3] = "%2F"
    /\ e[4] = "%2F"
    /\ e[5] \notin {"%2F", "%3F", "%23", "#"}

\* C11: the URL that ProxifyURI places in mortyurl has a scheme and a host,
\* for every URL rewritten in a document, also after a <base href> tag has
\* replaced the base URL.
C11_MortyURLAbsolute ==
    \A i \in 1..Len(emitted) : \A v \in WrittenURLs(emitted[i]) :
        IsProxified(v) => EscapedAbsolute(EscapedMortyURL(v))

(***************************************************************************)
(* The self-link of ProxifyURI, checked under SpecURI.                     *)
(***************************************************************************)
\* the call of ProxifyURI got past the javascript: and data: tests and
\* url.Parse accepted the URI
Resolved ==
    /\ pxPc = "ProxifyURI"
    /\ ~IsJavascript(pxUri)
    /\ ~IsData(pxUri)
    /\ ~Parse(sanitizeURI(pxUri).uri).err

\* the resolved URL is the document: scheme, host, path and raw query are
\* those of the base and the userinfo is the base's when the base has one
SameDocument ==
    /\ ResolvedURL.Scheme = pxRc.BaseURL.Scheme
    /\ ResolvedURL.Host = pxRc.BaseURL.Host
    /\ ResolvedURL.Path = pxRc.BaseURL.Path
    /\ ResolvedURL.RawQuery = pxRc.BaseURL.RawQuery
    /\ pxRc.BaseURL.HasUser =>
          (ResolvedURL.HasUser /\ ResolvedURL.User = pxRc.BaseURL.User)

\* C12: ProxifyURI returns "#" and the fragment, or the empty string when
\* there is no fragment, exactly when the resolved URL is the document; in
\* every other case it returns a ./?...mortyurl= URL.
C12_SelfLink ==
    Resolved =>
        /\ ~pxRes.err
        /\ SameDocument => pxRes.uri = FragmentPart
        /\ ~SameDocument => IsProxified(pxRes.uri)
        /\ SameDocument <=> ~IsProxified(pxRes.uri)

\* C12 happens: an absolute URL of the document came back as its fragment
C12_Witness ==
    /\ Resolved
    /\ SameDocument
    /\ Parse(sanitizeURI(pxUri).uri).url.Scheme # <<>>
    /\ FragmentPart # <<>>
    /\ pxRes.uri = FragmentPart

(***************************************************************************)
(* Redirects, checked under SpecReqFair.                                   *)
(***************************************************************************)
\* a step of ProcessUri that follows a redirect
FollowsRedirect == rqCount' # rqCount

\* C13: a redirect is followed only for a GET request with follow-redirect
\* enabled and while redirectCount < 5, so that one request makes at most 6
\* upstream requests; a redirect received with redirectCount = 5 is answered
\* with the main page and status 310; ProcessUri always returns.
C13_RedirectsBounded ==
    /\ [](/\ MaxRedirectCount = 5
          /\ rqCount <= 5
          /\ rqFetches <= rqCount + 1
          /\ rqFetches <= 6)
    /\ [][/\ FollowsRedirect =>
                /\ rqPc = "fetching"
                /\ Follows(rqProxy, rqCtx, rqResp')
                /\ rqCtx.method = "GET"
                /\ rqProxy.FollowRedirect
                /\ rqCount < 5
                /\ rqCount' = rqCount + 1
                /\ rqFetches' <= rqFetches + 1
          /\ (rqPc = "fetching" /\ Follows(rqProxy, rqCtx, rqResp') /\ rqCount = 5) =>
                /\ rqPc' = "done"
                /\ rqAnswer'.page = "main"
                /\ rqAnswer'.status = 310
                /\ rqFetches' = rqFetches]_vars
    /\ <>(rqPc = "done")

\* C13 happens: the sixth upstream request was answered with a redirect
C13_Witness ==
    /\ rqPc = "done"
    /\ rqCount = 5
    /\ rqFetches = 6
    /\ rqAnswer.status = 310

(***************************************************************************)
(* Attachments, checked under SpecReq.                                     *)
(***************************************************************************)
\* the upstream type is in the attachment allowlist and not in the inline one
AttachmentOnly ==
    /\ Parsed200
    /\ ~AllowedContentTypeFilter(ParseContentType(rqResp.ctype).ct)
    /\ AllowedContentTypeAttachmentFilter(ParseContentType(rqResp.ctype).ct)

UpstreamIsText == ParseContentType(rqResp.ctype).ct.TopLevelType = <<"text">>

\* the upstream body as received, and as converted to UTF-8
BodyUnchanged ==
    <<[kind |-> "raw", tag |-> "", name |-> "", val |-> <<"body">>, css |-> <<>>,
       depth |-> 0]>>

BodyConverted ==
    <<[kind |-> "raw", tag |-> "", name |-> "", val |-> <<"decoded">>, css |-> <<>>,
       depth |-> 0]>>

\* C14 as stated: a response whose type is in the attachment allowlist only
\* is served with Content-Disposition: attachment and the upstream body is
\* written unchanged, for text types in any character encoding as well.
C14_AttachmentBodyUnchanged ==
    AttachmentOnly =>
        /\ ~rqAnswer.disposition.nil
        /\ rqAnswer.body.chunks = BodyUnchanged

\* C14 amended: a response whose type is in the attachment allowlist only is
\* served with Content-Disposition: attachment; its body is written unchanged
\* unless the type is text/*: then a body in an encoding that is neither
\* UTF-8 nor the no-op encoding is written converted to UTF-8, and when the
\* conversion fails the answer is the main page with status 503, without the
\* header and without the body.
C14_AttachmentBody ==
    AttachmentOnly =>
        IF UpstreamIsText /\ rqResp.decode = "fail"
        THEN /\ rqAnswer.status = 503
             /\ rqAnswer.page = "main"
             /\ rqAnswer.disposition.nil
             /\ rqAnswer.body.chunks = <<>>
        ELSE /\ rqAnswer.status = 200
             /\ ~rqAnswer.disposition.nil
             /\ rqAnswer.body.route = "raw"
             /\ rqAnswer.body.chunks =
                   IF UpstreamIsText /\ rqResp.decode = "ok"
                   THEN BodyConverted ELSE BodyUnchanged

\* C14 happens: a text/plain attachment was written converted to UTF-8
C14_Witness ==
    /\ AttachmentOnly
    /\ UpstreamType = <<(<<"text">>), (<<"plain">>), (<<>>)>>
    /\ rqResp.decode = "ok"
    /\ ~rqAnswer.disposition.nil
    /\ rqAnswer.body.chunks = BodyConverted

(***************************************************************************)
(* The banner, checked under SpecHTML.                                     *)
(***************************************************************************)
\* chunk c is the banner
IsBanner(c) == c.kind = "template" /\ c.tag = "body"

BannerWritten == \E i \in 1..Len(emitted) : IsBanner(emitted[i])

\* C15: sanitizeHTML writes the banner immediately before each </body> it
\* reads with an empty unsafe stack and sets rc.BodyInjected, which nothing
\* sets otherwise and nothing resets; after sanitizeHTML has returned the
\* banner is appended if and only if rc.BodyInjected is false, so that every
\* HTML response has the banner.
C15_Banner ==
    /\ []((hpc = "tokens" /\ lastType = "EndTag" /\ lastTag = "body"
           /\ depthBefore = 0) =>
             /\ rc.BodyInjected
             /\ Len(emitted) = 2
             /\ IsBanner(emitted[1])
             /\ emitted[1].val = String(rc.BaseURL)
             /\ emitted[2].kind = "end" /\ emitted[2].tag = "body")
    /\ [](hpc = "done" => (BannerWritten <=> ~rc.BodyInjected))
    /\ [](hpc = "done" /\ ~rc.BodyInjected =>
             emitted = <<[kind |-> "template", tag |-> "body",
                          name |-> IF rc.Key # NoKey THEN "banner-readonly"
                                   ELSE "banner",
                          val |-> String(rc.BaseURL), css |-> <<>>, depth |-> 0]>>)
    /\ [][/\ rc.BodyInjected => rc'.BodyInjected
          /\ (~rc.BodyInjected /\ rc'.BodyInjected) =>
                /\ hpc = "tokens"
                /\ depthBefore' = 0
                /\ \E i \in 1..(Len(emitted') - 1) :
                      /\ IsBanner(emitted'[i])
                      /\ emitted'[i + 1].kind = "end"
                      /\ emitted'[i + 1].tag = "body"]_vars

\* C15 happens: the document had a </body>, so that nothing was appended
C15_Witness ==
    /\ hpc = "done"
    /\ rc.BodyInjected
    /\ lastType = "EndTag"
    /\ lastTag = "body"
    /\ emitted = <<>>

(***************************************************************************)
(* <base href>, checked under SpecHTML.                                    *)
(***************************************************************************)
\* the last token was read with an empty unsafe stack
ReadSafe == hpc = "tokens" /\ ntok > 0 /\ depthBefore = 0

IsBaseTag(tok) == tok.type \in {"StartTag", "SelfClosingTag"} /\ tok.tag = "base"

\* the href attributes of a tag that url.Parse accepts
ParseableHrefs(attrs) ==
    {k \in 1..Len(attrs) : attrs[k].name = "href" /\ ~Parse(attrs[k].value).err}

\* the base URL after a <base> tag: its last parseable href, or the old one
NewBase(old, attrs) ==
    IF ParseableHrefs(attrs) = {} THEN old
    ELSE Parse(attrs[CHOOSE k \in ParseableHrefs(attrs) :
                        \A j \in ParseableHrefs(attrs) : j <= k].value).url

\* the URLs written for the last token are those that ProxifyURI returns
\* with the base URL that rc holds now
RewrittenWithBase ==
    \A i \in 1..Len(emitted) :
        /\ emitted[i].kind = "urlattr" =>
              \E k \in 1..Len(lastTok.attrs) :
                  /\ lastTok.attrs[k].name = emitted[i].name
                  /\ emitted[i].val = ProxifyURI(rc, lastTok.attrs[k].value).uri
        /\ emitted[i].kind = "styleattr" =>
              \E k \in 1..Len(lastTok.attrs) :
                  emitted[i].css = EscapeItems(sanitizeCSS(rc, lastTok.attrs[k].css))
        /\ emitted[i].kind = "refresh" =>
              \E k \in 1..Len(lastTok.attrs) :
                  /\ lastTok.attrs[k].name = "content"
                  /\ emitted[i].val =
                       ProxifyURI(rc, StripQuotes(Drop(lastTok.attrs[k].value,
                                    IndexOf(ToLower(lastTok.attrs[k].value), "url=")))).uri
        /\ emitted[i].kind = "csstext" =>
              emitted[i].css = sanitizeCSS(rc, lastTok.css)
        /\ (emitted[i].kind = "template" /\ emitted[i].name = "mortyurl") =>
              emitted[i].val = String(FormURL(rc, WithEscaped(lastTok.attrs)))
        /\ IsBanner(emitted[i]) => emitted[i].val = String(rc.BaseURL)

\* the last token was a text read as a document of its own (noscript)
NestedDocument == lastTok.type = "Text" /\ state = StateInNoscript

\* C16: a <base> tag read with an empty unsafe stack makes its parseable
\* href the base URL and writes nothing; an unparseable href, a <base> tag
\* in an unsafe subtree and every other token leave the base URL as it is;
\* every URL written, in attributes, style text and attributes, meta
\* refresh, form, text inside noscript and banner, is rewritten with the
\* base URL of the moment: the old one before the tag, the new one after it.
C16_BaseHref ==
    /\ []((ReadSafe /\ IsBaseTag(lastTok)) => emitted = <<>>)
    /\ []((ReadSafe /\ ~NestedDocument) => RewrittenWithBase)
    /\ [][ntok' = ntok + 1 =>
            /\ (Len(unsafeElements) = 0 /\ IsBaseTag(lastTok')) =>
                  rc'.BaseURL = NewBase(rc.BaseURL, lastTok'.attrs)
            /\ (Len(unsafeElements) = 0 /\ lastTok'.type = "Text"
                /\ state = StateInNoscript) =>
                  /\ rc' = sanitizeHTML(rc, <<>>, lastTok'.sub).rc
                  /\ emitted' = sanitizeHTML(rc, <<>>, lastTok'.sub).out
            /\ (Len(unsafeElements) > 0
                \/ (~IsBaseTag(lastTok')
                    /\ ~(lastTok'.type = "Text" /\ state = StateInNoscript))) =>
                  rc'.BaseURL = rc.BaseURL]_vars

\* C16 happens: a link read after <base href="http://g/"> has been
\* rewritten with the new base
C16_Witness ==
    /\ ReadSafe
    /\ lastTok.tag = "a"
    /\ rc.BaseURL = Parse(<<"http", ":", "/", "/", "g", "/">>).url
    /\ rc.BaseURL \notin BaseURLs
    /\ \E i \in 1..Len(emitted) :
          /\ emitted[i].kind = "urlattr"
          /\ emitted[i].val = ProxifyURI(rc, UrlRel).uri
          /\ Contains(emitted[i].val, "g")

(***************************************************************************)
(* sanitizeCSS on a failing URL, checked under SpecURI (the style          *)
(* attribute of a sanitizeAttr call).                                      *)
(***************************************************************************)
\* the bytes of the items of a style sheet, one after the other
RECURSIVE CssBytes(_)
CssBytes(items) ==
    IF items = <<>> THEN <<>> ELSE Head(items).val \o CssBytes(Tail(items))

\* the style sheet css with each url(...) that ProxifyURI accepts replaced
\* by what it returns and each failing one removed
RECURSIVE CssExpected(_, _)
CssExpected(rcv, css) ==
    IF css = <<>> THEN <<>>
    ELSE (IF Head(css).kind = "lit" THEN Head(css).val
          ELSE IF ProxifyURI(rcv, Head(css).val).err THEN <<>>
          ELSE ProxifyURI(rcv, Head(css).val).uri)
         \o CssExpected(rcv, Tail(css))

\* C17: where ProxifyURI fails for a URL of a url(...), sanitizeCSS writes
\* the bytes around it and not the URL: the output is the input with each
\* proxified URL replaced and each failing URL removed.
C17_FailingURLDropped ==
    (pxPc = "sanitizeAttr" /\ pxAttr.name = "style") =>
        /\ Len(pxOut) = 1
        /\ CssBytes(pxOut[1].css) = EscapeString(CssExpected(pxRc, pxAttr.css))
        /\ \A k \in 1..Len(pxOut[1].css) : pxOut[1].css[k].kind # "rawurl"

(***************************************************************************)
(* Properties of package contenttype, checked under SpecCT.                *)
(***************************************************************************)
\* the two maps are equal as maps: the same keys, the same value for each
SameParameters(a, b) ==
    /\ DOMAIN a = DOMAIN b
    /\ \A k \in DOMAIN a : a[k] = b[k]

\* C18: ctA.Equals(ctB) returns true if and only if the two content types
\* have equal TopLevelType, SubType and Suffix and parameter maps that are
\* equal as maps, whatever the parameter values are, the empty string
\* included.
C18_EqualsIffSame ==
    ctPc = "Equals" =>
        (ctOut <=> /\ ctA.TopLevelType = ctB.TopLevelType
                   /\ ctA.SubType = ctB.SubType
                   /\ ctA.Suffix = ctB.Suffix
                   /\ SameParameters(ctA.Parameters, ctB.Parameters))

\* what the claim says of a filter built from the three arguments args
Accepts(args, ct) ==
    /\ args[1] = <<"*">> \/ args[1] = ct.TopLevelType
    /\ args[2] = <<"*">> \/ args[2] = ct.SubType
    /\ args[3] = <<"*">> \/ args[3] = ct.Suffix

\* C19: the filter of NewFilterEquals(T, S, X) accepts ct exactly when each
\* of T, S, X is "*" or equals the field of ct, and gives the same answer
\* for ct with any other parameter map; the filter of NewFilterOr accepts ct
\* exactly when at least one member of its list accepts ct.
C19_Filters ==
    /\ ctPc = "NewFilterEquals" =>
          /\ ctOut <=> Accepts(ctArg, ctA)
          /\ \A params \in CtParameters :
                NewFilterEquals(ctArg[1], ctArg[2], ctArg[3],
                                [ctA EXCEPT !.Parameters = params]) = ctOut
    /\ ctPc = "NewFilterOr" =>
          (ctOut <=> \E i \in 1..Len(ctArg) : Accepts(ctArg[i], ctA))

\* a list whose first member rejects and whose second member accepts, by
\* its wildcards, a content type that has parameters
C19_Witness ==
    /\ ctPc = "NewFilterOr"
    /\ Len(ctArg) = 2
    /\ ~Accepts(ctArg[1], ctA)
    /\ ctArg[2][1] = <<"*">> /\ ctArg[2][3] = <<"*">>
    /\ ctA.Suffix = <<"xml">>
    /\ ctA.Parameters # NoParameters
    /\ ctOut

\* the keys that the map parameters holds with the value true
AllowedSet(parameters) == {k \in DOMAIN parameters : parameters[k]}

\* C20: after ctA.FilterParameters(parameters) the parameter map is the
\* earlier map restricted to the allowed keys, each kept key with its
\* earlier value, and TopLevelType, SubType and Suffix are as before.
C20_FilterParameters ==
    ctPc = "FilterParameters" =>
        /\ DOMAIN ctOut.Parameters = DOMAIN ctA.Parameters \cap AllowedSet(ctArg)
        /\ \A k \in DOMAIN ctOut.Parameters : ctOut.Parameters[k] = ctA.Parameters[k]
        /\ ctOut.TopLevelType = ctA.TopLevelType
        /\ ctOut.SubType = ctA.SubType
        /\ ctOut.Suffix = ctA.Suffix

\* one parameter is kept and one, that the map holds with false, is removed
C20_Witness ==
    /\ ctPc = "FilterParameters"
    /\ DOMAIN ctA.Parameters = {"a", "charset"}
    /\ DOMAIN ctArg = {"a", "charset"} /\ ctArg["charset"] /\ ~ctArg["a"]
    /\ DOMAIN ctOut.Parameters = {"charset"}
    /\ ctA.Suffix = <<"xml">>

\* C21: for a content type ctA with lower-case type and subtype,
\* ParseContentType(ctA.String()) succeeds and returns a content type that
\* Equals ctA: the same type, subtype, suffix and parameters.
C21_StringRoundTrip ==
    (/\ ctPc = "String"
     /\ ToLower(ctA.TopLevelType) = ctA.TopLevelType
     /\ ToLower(ctA.SubType) = ctA.SubType) =>
        /\ ~ctOut.err
        /\ Equals(ctOut.ct, ctA)
        /\ ctOut.ct.TopLevelType = ctA.TopLevelType
        /\ ctOut.ct.SubType = ctA.SubType
        /\ ctOut.ct.Suffix = ctA.Suffix
        /\ SameParameters(ctOut.ct.Parameters, ctA.Parameters)

(***************************************************************************)
(* Properties of sanitizeURI, checked under SpecSU.                        *)
(***************************************************************************)
\* s without its leading and its trailing bytes <= 0x20
RECURSIVE TrimLeftWs(_)
TrimLeftWs(s) == IF s # <<>> /\ s[1] \in Ws THEN TrimLeftWs(Tail(s)) ELSE s

Trimmed(s) == TrimLeftWs(TrimRightWs(s))

\* the position in s of the first of the bytes : / ? \ #, 0 if there is none
FirstDelimiter(s) ==
    LET At == {i \in 1..Len(s) : s[i] \in {":", "/", "?", "\\", "#"}}
    IN  IF At = {} THEN 0 ELSE CHOOSE i \in At : \A j \in At : i <= j

\* a ":" is reached before any of / ? \ #
SchemeFound(s) == FirstDelimiter(s) # 0 /\ s[FirstDelimiter(s)] = ":"

\* the prefix of s up to and including its first ":", without the bytes
\* <= 0x20 and in lower case
SchemeOf(s) ==
    ToLower(SelectSeq(Take(s, FirstDelimiter(s)), LAMBDA c : c \notin Ws))

\* the state of the loop of sanitizeURI(suUri) when it ended
LoopEnd ==
    ScanURI(TrimRightWs(suUri), 0,
            [buffer |-> <<>>, firstRuneIndex |-> 0, firstRuneSeen |-> FALSE,
             schemeLastIndex |-> -1])

\* C22: sanitizeURI returns its argument without the leading and the
\* trailing bytes <= 0x20; when a ":" is reached before any of / ? \ #, the
\* prefix up to and including the ":" is returned without its bytes <= 0x20
\* and in lower case, and is the scheme string; otherwise the scheme string
\* is empty and no byte is changed; the bytes after the scheme are returned
\* unchanged, and the slices taken are within the bounds of the argument.
C22_SanitizeURI ==
    suPc # "new" /\ suPc # "idle" =>
        /\ IF SchemeFound(Trimmed(suUri))
           THEN /\ suRes.scheme = SchemeOf(Trimmed(suUri))
                /\ suRes.uri = SchemeOf(Trimmed(suUri))
                                  \o Drop(Trimmed(suUri), FirstDelimiter(Trimmed(suUri)))
                /\ LoopEnd.schemeLastIndex - Len(LoopEnd.buffer) + 1 >= 0
                /\ LoopEnd.schemeLastIndex < Len(TrimRightWs(suUri))
           ELSE /\ suRes.scheme = <<>>
                /\ suRes.uri = Trimmed(suUri)
                /\ suRes.mem = suUri
                /\ LoopEnd.firstRuneIndex <= Len(TrimRightWs(suUri))
        /\ Len(suRes.mem) = Len(suUri)

\* a byte <= 0x20 before the URI, and a scheme with an upper-case letter and
\* a byte <= 0x20 inside it
C22_Witness ==
    /\ suPc = "once"
    /\ Len(suUri) >= 4
    /\ suUri[1] = "sp"
    /\ suUri[2] = "HTTP"
    /\ suUri[3] = "sp"
    /\ suUri[4] = ":"
    /\ suRes.scheme = <<"http", ":">>

\* C23: sanitizeURI is idempotent on what it returns: called on the slice
\* that sanitizeURI(suUri) returned, it returns that slice and the same
\* scheme string.
C23_SanitizeURIIdempotent ==
    suPc = "twice" =>
        /\ suAgain.uri = suRes.uri
        /\ suAgain.scheme = suRes.scheme

\* the second call after a first call that removed bytes and wrote a scheme
C23_Witness ==
    /\ suPc = "twice"
    /\ suRes.scheme = <<"http", ":">>
    /\ Len(suRes.uri) > 2
    /\ Len(suRes.uri) < Len(suUri)
    /\ suAgain.scheme = <<"http", ":">>

(***************************************************************************)
(* The unsafe stack and the modes of sanitizeHTML, checked under SpecHTML. *)
(***************************************************************************)
\* the names on the stack of open unsafe elements, in opening order
StackNames == [i \in 1..Len(unsafeElements) |-> unsafeElements[i].name]

\* the stack that the claim requires after the token tok, names being the
\* stack before it
StackAfter(names, tok) ==
    IF tok.type = "StartTag" /\ tok.tag \in UnsafeTagNames
    THEN Append(names, tok.tag)
    ELSE IF tok.type = "EndTag" /\ names # <<>> /\ names[Len(names)] = tok.tag
    THEN Take(names, Len(names) - 1)
    ELSE names

\* C24: the stack holds the names of the unsafe start tags that are not
\* self-closing and not yet closed, in opening order: each token read
\* pushes the name of a non-self-closing unsafe start tag, pushes nothing
\* for a self-closing tag whether the stack is empty or not, and pops for
\* an end tag exactly when its name is the name on top of the stack.
C24_UnsafeStack ==
    [][ntok' = ntok + 1 => StackNames' = StackAfter(StackNames, lastTok')]_vars

\* the text inside noscript, sanitized as a document of its own from the
\* mode Default and an empty stack, with the RequestConfig rcv
NoscriptText(rcv, toks) ==
    sanitizeTokens([unsafeElements |-> <<>>, state |-> StateDefault, rc |-> rcv,
                    out |-> <<>>], toks)

\* C25: with an empty stack, nothing is written for a <noscript> start tag
\* and nothing for a </noscript> end tag; a text read in the mode
\* InNoscript is sanitized as HTML by a sanitizeHTML of its own, which
\* starts in the mode Default with an empty stack and shares the
\* RequestConfig only, so that an unsafe element left open in the text
\* leaves the stack of the outer call empty; the mode is Default after
\* </noscript>.
C25_Noscript ==
    [][(ntok' = ntok + 1 /\ Len(unsafeElements) = 0) =>
          /\ (lastTok'.tag = "noscript" /\ lastTok'.type = "StartTag") =>
                /\ emitted' = <<>>
                /\ state' = StateInNoscript
                /\ unsafeElements' = <<>>
          /\ (lastTok'.tag = "noscript" /\ lastTok'.type = "EndTag") =>
                /\ emitted' = <<>>
                /\ state' = StateDefault
                /\ unsafeElements' = <<>>
          /\ (lastTok'.type = "Text" /\ state = StateInNoscript) =>
                /\ emitted' = NoscriptText(rc, lastTok'.sub).out
                /\ rc' = NoscriptText(rc, lastTok'.sub).rc
                /\ rc'.Key = rc.Key
                /\ state' = StateInNoscript
                /\ unsafeElements' = <<>>]_vars

\* C25 happens: the text inside noscript left a <script> open, and the stack
\* of the outer call is empty
C25_Witness ==
    /\ hpc = "tokens"
    /\ lastTok.type = "Text"
    /\ state = StateInNoscript
    /\ depthBefore = 0
    /\ NoscriptText(rc, lastTok.sub).unsafeElements # <<>>
    /\ unsafeElements = <<>>

\* the step reads a token with an empty stack, and what the step writes for
\* a text depends on the mode as the claim says
TextByMode ==
    (lastTok'.type = "Text" /\ Len(unsafeElements) = 0) =>
        /\ state' = state
        /\ state = StateDefault =>
              emitted' = <<Chunk("text", "", "", <<lastTok'.text>>)>>
        /\ state = StateInStyle =>
              emitted' = <<CssChunk("csstext", "", "", sanitizeCSS(rc, lastTok'.css))>>
        /\ state = StateInNoscript =>
              emitted' = NoscriptText(rc, lastTok'.sub).out

\* the mode after the step is InStyle exactly when the step read <style>
\* with an empty stack, or the mode was InStyle and the step did not read
\* </style> with an empty stack; the noscript tags, which the tokenizer does
\* not yield inside the raw text of <style>, are left out
StyleMode ==
    lastTok'.tag # "noscript" =>
        (state' = StateInStyle <=>
            \/ /\ Len(unsafeElements) = 0
               /\ lastTok'.type = "StartTag"
               /\ lastTok'.tag = "style"
            \/ /\ state = StateInStyle
               /\ ~ /\ Len(unsafeElements) = 0
                    /\ lastTok'.type = "EndTag"
                    /\ lastTok'.tag = "style")

\* every url(...) of a text written in the mode InStyle is rewritten
StyleURLsRewritten ==
    (lastTok'.type = "Text" /\ Len(unsafeElements) = 0 /\ state = StateInStyle) =>
        \A i \in 1..Len(emitted') : \A v \in WrittenURLs(emitted'[i]) :
            AllowedURLForm(v)

\* the parts of C26 that are about the modes alone
TextModes == [][ntok' = ntok + 1 => TextByMode /\ StyleMode]_vars

\* C26: with an empty stack a text is written verbatim in the mode Default,
\* goes through sanitizeCSS in the mode InStyle and through sanitizeHTML in
\* the mode InNoscript; the mode is InStyle exactly from a <style> start tag
\* that is not self-closing until the next </style> read with an empty
\* stack, and every text between the two has its url(...) references
\* rewritten.
C26_TextByMode ==
    [][ntok' = ntok + 1 => TextByMode /\ StyleMode /\ StyleURLsRewritten]_vars

(***************************************************************************)
(* Properties of sanitizeLinkTag and sanitizeMetaTag, checked under        *)
(* SpecTag.                                                                *)
(***************************************************************************)
\* the values of the attributes called name
ValuesOf(attrs, name) ==
    {attrs[i].value : i \in {j \in 1..Len(attrs) : attrs[j].name = name}}

\* the rel values that the claim lists
SafeRelValues ==
    {<<"alternate">>, <<"archives">>, <<"author">>, <<"copyright">>, <<"first">>,
     <<"help">>, <<"icon">>, <<"index">>, <<"last">>, <<"license">>,
     <<"manifest">>, <<"next">>, <<"prev">>, <<"publisher">>, <<"search">>,
     <<"shortcut icon">>, <<"stylesheet">>, <<"up">>}

\* no rel value of the tag is outside the list and no as value is script
NotExcluded(attrs) ==
    /\ ValuesOf(attrs, "rel") \subseteq SafeRelValues
    /\ <<"script">> \notin ValuesOf(attrs, "as")

\* a chunk that sanitizeAttr may write for a link: a safe attribute with its
\* escaped value, a proxified href, src or action, or a rewritten style
SanitizedAttribute(chunk) ==
    \/ /\ chunk.kind = "attr"
       /\ inArray(chunk.name, SafeAttributes)
       /\ \E i \in 1..Len(tgAttrs) :
             /\ tgAttrs[i].name = chunk.name
             /\ chunk.val = EscapeString(tgAttrs[i].value)
    \/ /\ chunk.kind = "urlattr"
       /\ chunk.name \in {"href", "src", "action"}
       /\ \E i \in 1..Len(tgAttrs) :
             /\ tgAttrs[i].name = chunk.name
             /\ ~ProxifyURI(tgRc, tgAttrs[i].value).err
             /\ chunk.val = ProxifyURI(tgRc, tgAttrs[i].value).uri
    \/ /\ chunk.kind = "styleattr"
       /\ chunk.name = "style"

\* what holds of every call: the tag is written exactly when it is not
\* excluded, as "<link", sanitized attributes and ">"
LinkWritten ==
    tgPc = "sanitizeLinkTag" =>
        /\ tgOut # <<>> <=> NotExcluded(tgAttrs)
        /\ tgOut # <<>> =>
              /\ Len(tgOut) >= 2
              /\ tgOut[1] = Chunk("open", "link", "", <<>>)
              /\ tgOut[Len(tgOut)] = Chunk("close", "link", "", <<">">>)
              /\ \A i \in 2..(Len(tgOut) - 1) : SanitizedAttribute(tgOut[i])

\* C27: sanitizeLinkTag writes a link tag only when the rel value of the tag
\* is one of the safe values and its as value is not script, and nothing at
\* all for every other link tag; a link that is written is "<link", only
\* sanitized attributes and ">".
C27_LinkTag ==
    /\ LinkWritten
    /\ (tgPc = "sanitizeLinkTag" /\ tgOut # <<>>) =>
          \E v \in ValuesOf(tgAttrs, "rel") : v \in SafeRelValues

\* the http-equiv values that the claim lists
SafeHttpEquivValues ==
    {<<"date">>, <<"last-modified">>, <<"refresh">>, <<"content-language">>}

\* the http-equiv values of the tag in lower case
HttpEquivValues(attrs) == {ToLower(v) : v \in ValuesOf(attrs, "http-equiv")}

\* the attribute lists that have the attributes of attrs in some order
Reordered(attrs) ==
    {[i \in 1..Len(attrs) |-> attrs[p[i]]] :
        p \in {q \in [1..Len(attrs) -> 1..Len(attrs)] :
                 \A i, j \in 1..Len(attrs) : q[i] = q[j] => i = j}}

\* what holds of every call: the tag is dropped exactly when it has a
\* charset attribute or an http-equiv value outside the list, whatever the
\* order of the attributes, and what is written starts with "<meta" and ends
\* with ">"
MetaWritten ==
    tgPc = "sanitizeMetaTag" =>
        /\ tgOut = <<>> <=> \/ ValuesOf(tgAttrs, "charset") # {}
                            \/ ~(HttpEquivValues(tgAttrs) \subseteq SafeHttpEquivValues)
        /\ \A other \in Reordered(tgAttrs) :
              sanitizeMetaTag(tgRc, WithEscaped(other)) = <<>> <=> tgOut = <<>>
        /\ tgOut # <<>> =>
              /\ Len(tgOut) >= 2
              /\ tgOut[1] = Chunk("open", "meta", "", <<>>)
              /\ tgOut[Len(tgOut)] = Chunk("close", "meta", "", <<">">>)
              /\ \A i \in 2..(Len(tgOut) - 1) : tgOut[i].kind \notin {"open", "close"}

\* C28: sanitizeMetaTag writes nothing for a meta tag that has a charset
\* attribute and nothing unless the http-equiv value of the tag, in lower
\* case, is one of date, last-modified, refresh, content-language; the
\* decision is the same for every order of the attributes, and a dropped
\* meta leaves no part of a tag in the output.
C28_MetaTag ==
    /\ MetaWritten
    /\ (tgPc = "sanitizeMetaTag" /\ tgOut # <<>>) =>
          \E v \in HttpEquivValues(tgAttrs) : v \in SafeHttpEquivValues

\* the value of the content attribute of the tag (the last one)
ContentOf(attrs) ==
    LET Contents == {i \in 1..Len(attrs) : attrs[i].name = "content"}
    IN  IF Contents = {} THEN <<>>
        ELSE attrs[CHOOSE i \in Contents : \A j \in Contents : j <= i].value

\* where url= stands in the content, in any letter case: 0 if nowhere
URLAt(content) == IndexOf(MapSeq(content, ToLowerByte), "url=")

\* s without one pair of equal quotes around it
Unquoted(s) ==
    IF Len(s) >= 2 /\ s[1] = s[Len(s)] /\ s[1] \in {"'", "\""}
    THEN SubSeq(s, 2, Len(s) - 1)
    ELSE s

\* the target of the refresh: the text after url=, without its quotes
RefreshTarget(content) == Unquoted(Drop(content, URLAt(content)))

\* the call was made on a <meta http-equiv="refresh"> that is not dropped
\* and whose content has url= in it
IsRefresh ==
    /\ tgPc = "sanitizeMetaTag"
    /\ HttpEquivValues(tgAttrs) = {<<"refresh">>}
    /\ ValuesOf(tgAttrs, "charset") = {}
    /\ URLAt(ContentOf(tgAttrs)) # 0

\* what the claim says is written for the content and the proxified target r
RefreshWritten(content, r) ==
    IF r.err
    THEN tgOut = <<Chunk("open", "meta", "", <<>>), Chunk("close", "meta", "", <<">">>)>>
    ELSE tgOut = <<Chunk("open", "meta", "", <<>>),
                   Chunk("refreshprefix", "meta", "content",
                         Take(content, URLAt(content) - 1)),
                   Chunk("refresh", "meta", "content", r.uri),
                   Chunk("close", "meta", "", <<">">>)>>

\* no byte of the content is outside ASCII
AsciiContent == "xFF" \notin {ContentOf(tgAttrs)[i] : i \in 1..Len(ContentOf(tgAttrs))}

\* what holds where the content is ASCII
RefreshOfAscii ==
    (IsRefresh /\ AsciiContent) =>
        RefreshWritten(ContentOf(tgAttrs),
                       ProxifyURI(tgRc, RefreshTarget(ContentOf(tgAttrs))))

\* C29: for a meta refresh whose content has url= in it, in any letter
\* case, sanitizeMetaTag takes the text after url=, strips one pair of
\* matching quotes around it, proxifies it and writes the content before
\* url=, url= and the proxified URL; the target is never written as it came,
\* also when ProxifyURI fails: what is written beside the proxified URL has
\* no url= and nothing of what follows it.
C29_MetaRefresh ==
    IsRefresh =>
        /\ RefreshWritten(ContentOf(tgAttrs),
                          ProxifyURI(tgRc, RefreshTarget(ContentOf(tgAttrs))))
        /\ \A i \in 1..Len(tgOut) :
              tgOut[i].kind # "refresh" => URLAt(tgOut[i].val) = 0

(***************************************************************************)
(* The hidden inputs of a form, checked under SpecHTML.                    *)
(***************************************************************************)
\* the value of the action attribute of the tag as the tokenizer yields it
\* (the first one), <<>> when there is none
ActionOf(attrs) ==
    IF FirstAttr(attrs, "action") = 0 THEN <<>>
    ELSE attrs[FirstAttr(attrs, "action")].value

\* the action resolved against base; base when there is no action or the
\* action does not parse
ResolvedAction(base, attrs) ==
    IF FirstAttr(attrs, "action") = 0 \/ Parse(ActionOf(attrs)).err
    THEN base
    ELSE ResolveReference(base, Parse(ActionOf(attrs)).url)

\* the hidden inputs for the URL string urlStr and the key
HiddenInputs(urlStr, key) ==
    <<Chunk("template", "form", "mortyurl", urlStr)>>
    \o (IF key # NoKey
        THEN <<Chunk("template", "form", "mortyhash", hash(urlStr, key))>>
        ELSE <<>>)

\* what the claim says is written for the form tag tok
FormWritten(rcv, tok) ==
    <<Chunk("open", "form", "", <<>>)>>
    \o sanitizeAttrs(rcv, "form", WithEscaped(tok.attrs))
    \o <<Chunk("close", "form", "",
               IF tok.type = "SelfClosingTag" THEN <<" />">> ELSE <<">">>)>>
    \o HiddenInputs(String(ResolvedAction(rcv.BaseURL, tok.attrs)), rcv.Key)

\* the last token was a form tag read with an empty stack
FormRead ==
    /\ ReadSafe
    /\ lastTok.tag = "form"
    /\ lastTok.type \in {"StartTag", "SelfClosingTag"}

\* rewriting the action attribute left its bytes as they were
ActionKept == sanitizeURI(ActionOf(lastTok.attrs)).mem = ActionOf(lastTok.attrs)

\* what holds where the action has no byte <= 0x20 inside its scheme
FormOfKeptAction == (FormRead /\ ActionKept) => emitted = FormWritten(rc, lastTok)

\* C30: for a form tag read with an empty stack, the opening tag is written
\* with sanitized attributes and directly after it a hidden input mortyurl,
\* the action resolved against the base URL of the moment, or the base URL
\* where there is no action or it does not parse, and with a key a hidden
\* input mortyhash, the HMAC of that mortyurl string; without a key there
\* is no mortyhash input.
C30_FormInputs == FormRead => emitted = FormWritten(rc, lastTok)

(***************************************************************************)
(* The parameters of a request, checked under SpecReq.                     *)
(***************************************************************************)
\* the first value of the parameter name in args, nil when there is none
FirstValue(args, name) ==
    LET Named == {i \in 1..Len(args) : args[i].k = name}
    IN  IF Named = {} THEN NilBytes
        ELSE Bytes(args[CHOOSE i \in Named : \A j \in Named : i <= j].v)

\* the parameter as the claim takes it: from the query arguments, from the
\* form-post arguments when the query has none
Taken(ctx, name) ==
    IF ~FirstValue(ctx.queryArgs, name).nil THEN FirstValue(ctx.queryArgs, name)
    ELSE FirstValue(ctx.postArgs, name)

\* the names of the parameters in args
ArgNames(args) == {args[i].k : i \in 1..Len(args)}

\* the query arguments that are neither mortyurl nor mortyhash, in order
Remaining(args) ==
    SelectSeq(args, LAMBDA a : a.k \notin {"mortyurl", "mortyhash"})

\* u followed by the query string q
Joined(u, q) ==
    IF q = <<>> THEN u
    ELSE u \o (IF \E i \in 1..Len(u) : u[i] = "?" THEN <<"&">> ELSE <<"?">>) \o q

\* lines 323-331: the URL that ProcessUri requests for the target it was
\* given, https:// being put before a target that has no scheme
Requested(target) ==
    IF ~Parse(target).err /\ Parse(target).url.Scheme = <<>>
    THEN <<"https", ":", "/", "/">> \o target
    ELSE target

\* C31: RequestHandler takes mortyurl and mortyhash from the query
\* arguments, or from the form-post arguments when the query has none, and
\* removes them; the target given to ProcessUri is mortyurl, followed by
\* the remaining query string after "&" when mortyurl has a "?" and after
\* "?" otherwise, and mortyurl alone when no query parameter remains; the
\* query that is appended has no mortyurl and no mortyhash parameter.
C31_RequestParams ==
    [][\A ctx \in ProxyRequests :
          (rqPc = "start" /\ RequestHandler(ctx)) =>
             /\ rqURI' = Taken(ctx, "mortyurl")
             /\ rqHash' = Taken(ctx, "mortyhash")
             /\ rqCtx'.queryArgs = Remaining(ctx.queryArgs)
             /\ ArgNames(rqCtx'.queryArgs) \cap {"mortyurl", "mortyhash"} = {}
             /\ \A name \in {"mortyurl", "mortyhash"} :
                   FirstValue(ctx.queryArgs, name).nil =>
                       name \notin ArgNames(rqCtx'.postArgs)
             /\ (~rqURI'.nil /\ (rqProxy.Key = NoKey \/ HashIsValid')) =>
                   rqTarget' = Requested(Joined(rqURI'.b,
                                                QueryString(Remaining(ctx.queryArgs))))]_vars

\* C31 happens: mortyurl came from the form-post arguments and has a "?" in
\* it, a query parameter remained, and the request was sent
C31_Witness ==
    /\ rqPc = "fetching"
    /\ rqCount = 0
    /\ rqCtx.method = "POST"
    /\ rqCtx.queryArgs = <<Arg("a", <<"1">>)>>
    /\ rqURI = Bytes(TgtQuery)
    /\ rqTarget = TgtQuery \o <<"&", "a", "=", "1">>

(***************************************************************************)
(* A redirect that is not followed, checked under SpecReq.                 *)
(***************************************************************************)
RedirectStatuses == {301, 302, 303, 307, 308}

\* the upstream answered a redirect with a Location, ProcessUri did not
\* follow it and has returned
NotFollowed ==
    /\ rqPc = "done"
    /\ rqResp.err = ""
    /\ rqResp.status \in RedirectStatuses
    /\ ~rqResp.loc.nil
    /\ ~(rqProxy.FollowRedirect /\ rqCtx.method = "GET")

\* the Location resolved against the requested URL, without its fragment
ResolvedLocation ==
    ResolveReference(Parse(rqTarget).url,
                     [Parse(rqResp.loc.b).url EXCEPT !.Fragment = <<>>])

\* what holds of every redirect that is not followed: the status is the
\* upstream's and no body is written; the answer is the landing page where
\* url.Parse rejects the Location, and otherwise the Location header is a
\* proxified URL, a fragment or the empty string
RedirectRewritten ==
    NotFollowed =>
        /\ rqAnswer.status = rqResp.status
        /\ rqAnswer.body.chunks = <<>>
        /\ IF Parse(sanitizeURI(rqResp.loc.b).uri).err
           THEN rqAnswer.page = "main"
           ELSE /\ rqAnswer.page = "redirect"
                /\ AllowedURLForm(rqAnswer.location)
                /\ IsProxified(rqAnswer.location) =>
                      HasPrefix(EscapedMortyURL(rqAnswer.location),
                                QueryEscape(String(ResolvedLocation)))

\* C32: a redirect with a Location that is not followed is answered with
\* the status of the upstream, no body, and a Location header that holds
\* the proxified Location, resolved against the requested URL; the client
\* never gets the Location as the upstream sent it.
C32_RedirectNotFollowed ==
    NotFollowed =>
        /\ rqAnswer.status = rqResp.status
        /\ rqAnswer.page = "redirect"
        /\ rqAnswer.body.chunks = <<>>
        /\ IsProxified(rqAnswer.location)
        /\ HasPrefix(EscapedMortyURL(rqAnswer.location),
                     QueryEscape(String(ResolvedLocation)))
        /\ rqAnswer.location # rqResp.loc.b

(***************************************************************************)
(* The answers of ProcessUri to the failures of the upstream               *)
(***************************************************************************)

\* ProcessUri has returned from the call of DoTimeout without following a
\* redirect: the step from "fetching" to "done" with the reply in rqResp'
Replied ==
    /\ rqPc = "fetching"
    /\ rqPc' = "done"
    /\ ~Follows(rqProxy, rqCtx, rqResp')

\* a redirect that ProcessUri answers with a rewritten Location
HandledRedirect(resp) ==
    /\ resp.status \in RedirectStatuses
    /\ ~resp.loc.nil
    /\ ~Parse(sanitizeURI(resp.loc.b).uri).err

\* the Content-Type of the reply after the xhtml replacement, for a reply
\* whose Content-Type is parsed
RepliedType(resp) == XhtmlHack(ParseContentType(resp.ctype).ct)

\* the decoder of the body is run and reports an error
DecoderError(resp) ==
    /\ resp.err = ""
    /\ resp.status = 200
    /\ ~resp.ctype.nil
    /\ ~ParseContentType(resp.ctype).err
    /\ \/ AllowedContentTypeFilter(ParseContentType(resp.ctype).ct)
       \/ AllowedContentTypeAttachmentFilter(ParseContentType(resp.ctype).ct)
    /\ RepliedType(resp).TopLevelType = <<"text">>
    /\ resp.decode = "fail"

\* the landing page with the given status and nothing of the upstream's body
Landing(answer, statusCode) ==
    /\ answer.page = "main"
    /\ answer.status = statusCode
    /\ answer.body.chunks = <<>>
    /\ answer.location = NoResponse.location

\* C33: ProcessUri answers a timeout of the upstream with the landing page
\* and 504, any other transport error with 500, a status other than 200
\* that is no handled redirect with the landing page and that status, a
\* missing or unparseable Content-Type with 503 and an error of the charset
\* decoder with 503, and writes no byte of the upstream's body in any of
\* these cases.
C33_UpstreamFailures ==
    [][Replied =>
         /\ rqResp'.err = "timeout" => Landing(rqAnswer', 504)
         /\ rqResp'.err \notin {"", "timeout"} => Landing(rqAnswer', 500)
         /\ (rqResp'.err = "" /\ rqResp'.status # 200 /\ ~HandledRedirect(rqResp'))
               => Landing(rqAnswer', rqResp'.status)
         /\ (rqResp'.err = "" /\ rqResp'.status = 200
               /\ (rqResp'.ctype.nil \/ ParseContentType(rqResp'.ctype).err))
               => Landing(rqAnswer', 503)
         /\ DecoderError(rqResp') => Landing(rqAnswer', 503)]_vars

C33_Witness ==
    /\ rqPc = "done"
    /\ DecoderError(rqResp)
    /\ rqResp.ctype.media = <<"application", "/", "xhtml", "+", "xml">>
    /\ rqAnswer.status = 503
    /\ rqAnswer.page = "main"
    /\ rqAnswer.body.chunks = <<>>

(***************************************************************************)
(* Equals in both directions                                               *)
(***************************************************************************)

\* what holds of Equals in both directions: the two calls agree wherever no
\* parameter of either content type has the empty string as its value
EqualsSymmetricNonEmpty ==
    (/\ ctPc = "Equals"
     /\ \A k \in DOMAIN ctA.Parameters : ctA.Parameters[k] # ""
     /\ \A k \in DOMAIN ctB.Parameters : ctB.Parameters[k] # "")
        => ctOut = Equals(ctB, ctA)

\* C34: Equals is symmetric: ctA.Equals(ctB) returns what ctB.Equals(ctA)
\* returns, for all content types ctA and ctB.
C34_EqualsSymmetric ==
    ctPc = "Equals" => ctOut = Equals(ctB, ctA)

(***************************************************************************)
(* One response for each request                                           *)
(***************************************************************************)

\* the kinds of response: a static endpoint, the landing page, the exit
\* page, a redirect without a body and a body derived from the upstream
ResponseKinds == {"app", "main", "exit", "redirect", "body"}

\* the kinds of what has been written to the response
Written(response) == {response.writes[i] : i \in DOMAIN response.writes}

\* C35: every request that RequestHandler handles ends in exactly one kind
\* of response, a static endpoint, the landing page, the exit page, a
\* redirect without a body or a body derived from the upstream; the landing
\* page and the exit page are never written after or together with bytes of
\* the upstream's body, and the status code is set at most once for a
\* request, also where redirects were followed.
C35_OneResponse ==
    /\ rqPc \in {"start", "fetching"} =>
          /\ rqAnswer.sets = 0
          /\ rqAnswer.writes = <<>>
    /\ rqPc = "done" =>
          /\ rqAnswer.page \in ResponseKinds
          /\ rqAnswer.writes = IF rqAnswer.page = "redirect" THEN <<>>
                               ELSE <<rqAnswer.page>>
          /\ rqAnswer.page \in {"main", "redirect", "app"} => rqAnswer.body.chunks = <<>>
          /\ rqAnswer.page = "exit" =>
                \A i \in DOMAIN rqAnswer.body.chunks : rqAnswer.body.chunks[i].kind = "template"
          /\ rqAnswer.page = "body" <=> rqAnswer.body.route \in {"css", "html", "raw"}
          /\ Written(rqAnswer) \cap {"main", "exit"} # {} => "body" \notin Written(rqAnswer)
          /\ rqAnswer.sets <= 1

C35_Witness ==
    /\ rqPc = "done"
    /\ rqCount = MaxRedirectCount
    /\ rqResp.status = 302
    /\ rqAnswer.page = "main"
    /\ rqAnswer.status = 310
    /\ rqAnswer.sets = 1
    /\ rqAnswer.writes = <<"main">>

=============================================================================
